---- MODULE Spec2Model ----
(***************************************************************************)
(* Model of the compound-file (.msg) reader of obsidian-msg-handler:       *)
(* src/src/modules/msgreader.js (DataStream cursor + MSGReader facade).    *)
(*                                                                         *)
(* The input ArrayBuffer is read byte by byte: ByteAt(o) is the byte at    *)
(* offset o, 0..255.  JavaScript numbers that may be undefined             *)
(* or NaN are one-element / empty tuples: N(7) = <<7>>, NaN = <<>>.        *)
(* A call runs to completion as one action (JavaScript is single-threaded);*)
(* a loop that never terminates leaves the machine hung.                   *)
(***************************************************************************)
EXTENDS Integers, Sequences, FiniteSets, TLC

VARIABLES
    buffer,     \* the caller's ArrayBuffer: the description of its layout
                \* and the bytes FileByte gives for it
    ds,         \* per reader: the DataStream cursor (position, byteLength, bufLen)
    fileData,   \* per reader: memoized parseMsgData result, or NoFileData
    result,     \* per reader: outcome of the last facade call
    parseRuns,  \* per reader: number of times parseMsgData was entered
    hung,       \* TRUE once a call entered a loop that never terminates
    alone,      \* per reader: stream, memo and last result of a reader that
                \* gets the same calls on the same bytes with no other reader
    stream,     \* a DataStream used directly (position, byteLength, bufLen)
    call,       \* the last operation made on stream, and how it ended
    vault,      \* the files of the vault (TFile: path and extension)
    db,         \* the rows of the table dbMessageContents (id, filePath)
    plugin,     \* MsgHandlerPlugin: loaded, settings, search leaves, the
                \* table's next id, and the last thing that happened
    search,     \* SearchViewComponent: searchKey, searchResults, the promise
                \* queue, the searches in flight, and what has happened
    handlers    \* the event handlers and the sync that are under way, each
                \* with the point it has reached

readerVars == <<ds, fileData, result, parseRuns, hung, alone>>
streamVars == <<stream, call>>
pluginVars == <<vault, db, plugin>>
viewVars == <<search, handlers>>
vars == <<buffer, ds, fileData, result, parseRuns, hung, alone, stream, call,
          vault, db, plugin, search, handlers>>

---------------------------------------------------------------------------
(* JavaScript numbers that can be undefined / NaN                          *)

N(n) == <<n>>
NaN == <<>>
IsNum(v) == v # <<>>
Val(v) == v[1]

\* +Infinity and -Infinity among the numbers
PosInfinity == <<1, 0>>
NegInfinity == <<0 - 1, 0>>
IsInf(v) == Len(v) = 2

\* JS remainder: sign follows the dividend
JsRem(a, b) == IF a >= 0 THEN a % b ELSE 0 - ((0 - a) % b)

\* arithmetic on numbers that may be NaN / undefined
Plus(a, n) == IF IsNum(a) THEN N(Val(a) + n) ELSE NaN
Times(a, n) == IF IsNum(a) THEN N(Val(a) * n) ELSE NaN
Floor(a, n) == IF IsNum(a) THEN N(Val(a) \div n) ELSE NaN
Rem(a, n) == IF IsNum(a) THEN N(JsRem(Val(a), n)) ELSE NaN

\* array[i] for a 0-based JS array held as a sequence: undefined off the array
At(array, i) ==
    IF IsNum(i) /\ Val(i) \in 0..(Len(array) - 1) THEN array[Val(i) + 1] ELSE NaN

Min(a, b) == IF a < b THEN a ELSE b
Max(a, b) == IF a > b THEN a ELSE b

---------------------------------------------------------------------------
(* Constants of the reader (CONST in msgreader.js)                         *)

FILE_HEADER == <<-48, -49, 17, -32, -95, -79, 26, -31>>
UNUSED_BLOCK == -1
END_OF_CHAIN == -2
S_BIG_BLOCK_SIZE == 512
L_BIG_BLOCK_SIZE == 4096
L_BIG_BLOCK_MARK == 12
SMALL_BLOCK_SIZE == 64
BIG_BLOCK_MIN_DOC_SIZE == 4096
PROPERTY_START_OFFSET == 48
BAT_START_OFFSET == 76
BAT_COUNT_OFFSET == 44
SBAT_START_OFFSET == 60
SBAT_COUNT_OFFSET == 64
XBAT_START_OFFSET == 68
XBAT_COUNT_OFFSET == 72
NO_INDEX == -1
PROPERTY_SIZE == 128
NAME_SIZE_OFFSET == 64
TYPE_OFFSET == 66
PREVIOUS_PROPERTY_OFFSET == 68
NEXT_PROPERTY_OFFSET == 72
CHILD_PROPERTY_OFFSET == 76
START_BLOCK_OFFSET == 116
SIZE_OFFSET == 120
TYPE_DIRECTORY == 1
TYPE_DOCUMENT == 2
TYPE_ROOT == 5
BLOCK_MARK_POSITION == 30

---------------------------------------------------------------------------
(* Input files.  A file is described by its header fields and its blocks   *)
(* and laid out byte for byte the way the reader's offsets expect it.      *)

\* byte k (0 = least significant) of the 32-bit two's complement of v
LE(v, k) ==
    LET shift == IF k = 0 THEN 1 ELSE IF k = 1 THEN 256
                 ELSE IF k = 2 THEN 65536 ELSE 16777216
    IN  IF v >= 0 THEN (v \div shift) % 256
        ELSE 255 - ((((0 - v) - 1) \div shift) % 256)

\* one 128-byte property slot
SlotByte(slot, o) ==
    LET nameLength == IF Len(slot.name) = 0 THEN 0 ELSE 2 * (Len(slot.name) + 1)
    IN  IF o < NAME_SIZE_OFFSET
        THEN IF o % 2 = 0 /\ (o \div 2) < Len(slot.name)
             THEN slot.name[(o \div 2) + 1] ELSE 0
        ELSE IF o \in NAME_SIZE_OFFSET..(NAME_SIZE_OFFSET + 1)
        THEN LE(nameLength, o - NAME_SIZE_OFFSET)
        ELSE IF o = TYPE_OFFSET THEN slot.type
        ELSE IF o \in PREVIOUS_PROPERTY_OFFSET..(PREVIOUS_PROPERTY_OFFSET + 3)
        THEN LE(slot.prev, o - PREVIOUS_PROPERTY_OFFSET)
        ELSE IF o \in NEXT_PROPERTY_OFFSET..(NEXT_PROPERTY_OFFSET + 3)
        THEN LE(slot.next, o - NEXT_PROPERTY_OFFSET)
        ELSE IF o \in CHILD_PROPERTY_OFFSET..(CHILD_PROPERTY_OFFSET + 3)
        THEN LE(slot.child, o - CHILD_PROPERTY_OFFSET)
        ELSE IF o \in START_BLOCK_OFFSET..(START_BLOCK_OFFSET + 3)
        THEN LE(slot.start, o - START_BLOCK_OFFSET)
        ELSE IF o \in SIZE_OFFSET..(SIZE_OFFSET + 3)
        THEN LE(slot.size, o - SIZE_OFFSET)
        ELSE 0

EmptySlot == [type |-> 0, name |-> <<>>, prev |-> NO_INDEX, next |-> NO_INDEX,
              child |-> NO_INDEX, start |-> 0, size |-> 0]

\* the three kinds of block: 32-bit entries (free entries read -1),
\* property slots, raw bytes (zero padded)
IntsBlock(ints) == [k |-> "ints", ints |-> ints, slots |-> <<>>, bytes |-> <<>>]
PropsBlock(slots) == [k |-> "props", ints |-> <<>>, slots |-> slots, bytes |-> <<>>]
DataBlock(bytes) == [k |-> "data", ints |-> <<>>, slots |-> <<>>, bytes |-> bytes]

BlockByte(block, o) ==
    CASE block.k = "ints" ->
           IF (o \div 4) < Len(block.ints)
           THEN LE(block.ints[(o \div 4) + 1], o % 4) ELSE 255
      [] block.k = "props" ->
           IF (o \div PROPERTY_SIZE) < Len(block.slots)
           THEN SlotByte(block.slots[(o \div PROPERTY_SIZE) + 1], o % PROPERTY_SIZE)
           ELSE SlotByte(EmptySlot, o % PROPERTY_SIZE)
      [] block.k = "data" ->
           IF o < Len(block.bytes) THEN block.bytes[o + 1] ELSE 0

HeaderByte(f, o) ==
    IF o < 8 THEN f.sig[o + 1]
    ELSE IF o = BLOCK_MARK_POSITION THEN f.mark
    ELSE IF o \in BAT_COUNT_OFFSET..(BAT_COUNT_OFFSET + 3)
    THEN LE(f.batCount, o - BAT_COUNT_OFFSET)
    ELSE IF o \in PROPERTY_START_OFFSET..(PROPERTY_START_OFFSET + 3)
    THEN LE(f.propertyStart, o - PROPERTY_START_OFFSET)
    ELSE IF o \in SBAT_START_OFFSET..(SBAT_START_OFFSET + 3)
    THEN LE(f.sbatStart, o - SBAT_START_OFFSET)
    ELSE IF o \in SBAT_COUNT_OFFSET..(SBAT_COUNT_OFFSET + 3)
    THEN LE(f.sbatCount, o - SBAT_COUNT_OFFSET)
    ELSE IF o \in XBAT_START_OFFSET..(XBAT_START_OFFSET + 3)
    THEN LE(f.xbatStart, o - XBAT_START_OFFSET)
    ELSE IF o \in XBAT_COUNT_OFFSET..(XBAT_COUNT_OFFSET + 3)
    THEN LE(f.xbatCount, o - XBAT_COUNT_OFFSET)
    ELSE IF o >= BAT_START_OFFSET
    THEN IF ((o - BAT_START_OFFSET) \div 4) < Len(f.hbat)
         THEN LE(f.hbat[((o - BAT_START_OFFSET) \div 4) + 1], o % 4) ELSE 255
    ELSE 0

FileByte(f, o) ==
    IF o < S_BIG_BLOCK_SIZE THEN HeaderByte(f, o)
    ELSE IF (o \div S_BIG_BLOCK_SIZE) - 1 < Len(f.blocks)
    THEN BlockByte(f.blocks[o \div S_BIG_BLOCK_SIZE], o % S_BIG_BLOCK_SIZE)
    ELSE 0

\* the ArrayBuffer handed to the reader: the file's layout together with the
\* bytes it encodes
ArrayBuffer(f) ==
    [id |-> f.id, len |-> f.len, sig |-> f.sig, mark |-> f.mark,
     batCount |-> f.batCount, propertyStart |-> f.propertyStart,
     sbatStart |-> f.sbatStart, sbatCount |-> f.sbatCount,
     xbatStart |-> f.xbatStart, xbatCount |-> f.xbatCount,
     hbat |-> f.hbat, blocks |-> f.blocks,
     bytes |-> [o \in 1..f.len |-> FileByte(f, o - 1)]]

\* the byte the stream sees at offset o: the caller's byte, or a zero that
\* _realloc appended
ByteAt(o) == IF o \in 0..(buffer.len - 1) THEN buffer.bytes[o + 1] ELSE 0

---------------------------------------------------------------------------
(* DataStream: the cursor over the buffer.                                 *)
(* A context c is [pos, byteLength, bufLen, callerLen, st, ret]:           *)
(*   pos        DataStream.position                                        *)
(*   byteLength DataStream._byteLength (virtual length; _byteOffset is 0)  *)
(*   bufLen     DataStream._buffer.byteLength (physical length)            *)
(*   callerLen  byteLength of the ArrayBuffer the caller supplied          *)
(*   st         "ok", or the exception that ended the call, or "hang"      *)
(*   ret        the value the last operation returned                      *)
(* _realloc only ever appends zero bytes to a private copy, so the bytes   *)
(* the stream sees are the caller's bytes followed by zeros.               *)

NewDataStream(len) == [pos |-> 0, byteLength |-> len, bufLen |-> len]

Ctx(d) == [pos |-> d.pos, byteLength |-> d.byteLength, bufLen |-> d.bufLen,
           callerLen |-> buffer.len, st |-> "ok", ret |-> 0]
DsOf(c) == [pos |-> c.pos, byteLength |-> c.byteLength, bufLen |-> c.bufLen]

Ok(c) == c.st = "ok"
Throw(c, e) == [c EXCEPT !.st = e]
Ret(c, v) == [c EXCEPT !.ret = v]

\* the caller's ArrayBuffer as a call leaves it: the bytes it had, with a
\* zero for every byte it grew by
CallerBuffer(c) ==
    IF c.callerLen = buffer.len THEN buffer
    ELSE [buffer EXCEPT !.len = c.callerLen,
                        !.bytes = [o \in 1..c.callerLen |->
                                     IF o <= Len(buffer.bytes) THEN buffer.bytes[o]
                                     ELSE 0]]


\* a seek that leaves the cursor where the last read left it
seekIgnored(c, p) == c

\* DataStream.prototype.seek: npos = max(0, min(byteLength, pos)), then 0
\* when npos is NaN or not finite; of the infinities min and max make
\* byteLength and 0
seek(c, p) ==
    IF ~Ok(c) THEN c ELSE
    [c EXCEPT !.pos = IF ~IsNum(p) THEN 0
                      ELSE IF IsInf(p) THEN (IF p = PosInfinity THEN c.byteLength ELSE 0)
                      ELSE Max(0, Min(c.byteLength, Val(p)))]

\* the `buffer` getter runs _trimAlloc: the physical buffer shrinks to _byteLength
trimAlloc(c) == [c EXCEPT !.bufLen = c.byteLength]

\* DataStream.prototype._realloc (with _dynamicSize = true, the prototype default)
RECURSIVE Doubled(_, _)
Doubled(blen, req) == IF req > blen THEN Doubled(blen * 2, req) ELSE blen

\* a _realloc that grows the buffer it was given where _realloc copies it
reallocInPlace(c, extra) ==
    LET req == c.pos + extra
        blen == c.bufLen
        Grown(len) == [c EXCEPT !.bufLen = len, !.byteLength = req,
                                !.callerLen = IF c.bufLen = c.callerLen THEN len
                                              ELSE c.callerLen]
    IN  IF req <= blen
        THEN IF req > c.byteLength THEN [c EXCEPT !.byteLength = req] ELSE c
        ELSE Grown(Doubled(IF blen < 1 THEN 1 ELSE blen, req))

\* _realloc: the grown buffer is a new ArrayBuffer that src is copied into,
\* the caller's keeps its length
realloc(c, extra) ==
    LET req == c.pos + extra
        blen == c.bufLen
    IN  IF req <= blen
        THEN IF req > c.byteLength THEN [c EXCEPT !.byteLength = req] ELSE c
        ELSE [c EXCEPT !.bufLen = Doubled(IF blen < 1 THEN 1 ELSE blen, req),
                       !.byteLength = req]

Signed8(b) == IF b >= 128 THEN b - 256 ELSE b

\* DataView.getInt8 / getInt16 / getInt32 (little endian) at the position;
\* RangeError when the read leaves the DataView (length bufLen)
readInt8(c) ==
    IF ~Ok(c) THEN c ELSE
    IF c.pos + 1 > c.bufLen THEN Throw(c, "RangeError")
    ELSE [c EXCEPT !.ret = Signed8(ByteAt(c.pos)), !.pos = c.pos + 1]

readInt16(c) ==
    IF ~Ok(c) THEN c ELSE
    IF c.pos + 2 > c.bufLen THEN Throw(c, "RangeError")
    ELSE [c EXCEPT !.ret = ByteAt(c.pos) + 256 * Signed8(ByteAt(c.pos + 1)),
                   !.pos = c.pos + 2]

Int32At(o) ==
    ByteAt(o) + 256 * ByteAt(o + 1) + 65536 * ByteAt(o + 2)
        + 16777216 * Signed8(ByteAt(o + 3))

readInt32(c) ==
    IF ~Ok(c) THEN c ELSE
    IF c.pos + 4 > c.bufLen THEN Throw(c, "RangeError")
    ELSE [c EXCEPT !.ret = Int32At(c.pos), !.pos = c.pos + 4]

\* readInt / readShort / readByte(offset): seek, then read
readInt(c, offset) == readInt32(seek(c, offset))
readShort(c, offset) == readInt16(seek(c, offset))
readByte(c, offset) == readInt8(seek(c, offset))

\* DataStream.memcpy's source view: new Uint8Array(src, srcOffset, byteLength)
MemcpyFits(c, nbytes) == c.pos + nbytes <= c.bufLen

\* readInt8Array(length): signed bytes, copied
readInt8Array(c, length) ==
    IF ~Ok(c) THEN c ELSE
    LET t == trimAlloc(c)
    IN  IF ~MemcpyFits(t, length) THEN Throw(t, "RangeError")
        ELSE [t EXCEPT !.ret = [i \in 1..length |-> Signed8(ByteAt(t.pos + i - 1))],
                       !.pos = t.pos + length]

\* readUint8Array(length): unsigned bytes, copied; a negative length is refused
readUint8Array(c, length) ==
    IF ~Ok(c) THEN c ELSE
    IF length < 0 THEN Throw(c, "RangeError")
    ELSE LET t == trimAlloc(c)
         IN  IF ~MemcpyFits(t, length) THEN Throw(t, "RangeError")
             ELSE [t EXCEPT !.ret = [i \in 1..length |-> ByteAt(t.pos + i - 1)],
                            !.pos = t.pos + length]

\* readUint16Array(length) with length = bytes / 2 as the callers pass it:
\* the typed array has floor(bytes/2) elements but memcpy copies `bytes`
\* bytes into it, which is refused when bytes is odd
readUint16ArrayOfBytes(c, bytes) ==
    IF ~Ok(c) THEN c ELSE
    IF bytes < 0 THEN Throw(c, "RangeError")
    ELSE LET t == trimAlloc(c)
         IN  IF bytes % 2 = 1 \/ ~MemcpyFits(t, bytes) THEN Throw(t, "RangeError")
             ELSE [t EXCEPT
                    !.ret = [i \in 1..(bytes \div 2) |->
                               ByteAt(t.pos + 2 * (i - 1))
                                 + 256 * ByteAt(t.pos + 2 * (i - 1) + 1)],
                    !.pos = t.pos + bytes]

\* mapUint8Array(length): a view, after _realloc made room for it
mapUint8Array(c, length) ==
    LET Mapped(r) ==
            IF length < 0 THEN Throw(r, "RangeError")
            ELSE [r EXCEPT !.ret = [i \in 1..length |-> ByteAt(r.pos + i - 1)],
                           !.pos = r.pos + length]
    IN  IF ~Ok(c) THEN c ELSE Mapped(realloc(c, length))

\* createStringFromArray: one UTF-16 code unit per array element
createStringFromArray(array) == array

\* readString(length) with the default (ASCII) encoding
readString(c, length) ==
    LET AsString(m) == IF Ok(m) THEN Ret(m, createStringFromArray(m.ret)) ELSE m
    IN  AsString(mapUint8Array(c, length))

\* readUCS2String(length) with length = bytes / 2
readUCS2StringOfBytes(c, bytes) ==
    LET AsString(m) == IF Ok(m) THEN Ret(m, createStringFromArray(m.ret)) ELSE m
    IN  AsString(readUint16ArrayOfBytes(c, bytes))

\* readInt32Array(length)[index]: the whole array must fit; an index outside
\* the array reads undefined
readInt32ArrayAt(c, length, index) ==
    IF ~Ok(c) THEN c ELSE
    LET t == trimAlloc(c)
    IN  IF ~MemcpyFits(t, 4 * length) THEN Throw(t, "RangeError")
        ELSE [t EXCEPT
               !.ret = IF IsNum(index) /\ Val(index) \in 0..(length - 1)
                       THEN N(Int32At(t.pos + 4 * Val(index))) ELSE NaN,
               !.pos = t.pos + 4 * length]

\* a JS value that is a number, a string or null
NumberOf(r) == IF Ok(r) THEN Ret(r, [t |-> "number", v |-> r.ret]) ELSE r
StringOf(r) == IF Ok(r) THEN Ret(r, [t |-> "string", v |-> r.ret]) ELSE r
Null == [t |-> "null", v |-> <<>>]

\* readUint8
readUint8(c) ==
    IF ~Ok(c) THEN c ELSE
    IF c.pos + 1 > c.bufLen THEN Throw(c, "RangeError")
    ELSE [c EXCEPT !.ret = ByteAt(c.pos), !.pos = c.pos + 1]

\* the scan of readCString: for (i = 0; i < len && u8[i] != 0; i++), where
\* u8 views the buffer from the position to its physical end
RECURSIVE firstZero(_, _, _)
firstZero(c, i, len) ==
    IF i < len /\ ~(c.pos + i < c.bufLen /\ ByteAt(c.pos + i) = 0)
    THEN firstZero(c, i + 1, len)
    ELSE i

\* a readCString that always stops just past the terminator it found
readCStringToTerminator(c, length) ==
    LET blen == c.byteLength - c.pos
        len == IF IsNum(length) THEN Min(Val(length), blen) ELSE blen
        Skipped(m, i) ==
            IF ~Ok(m) THEN m
            ELSE IF i # len THEN [m EXCEPT !.pos = m.pos + 1]
            ELSE m
        Found(i) == Skipped(mapUint8Array(c, i), i)
    IN  IF ~Ok(c) THEN c
        ELSE IF c.pos > c.bufLen THEN Throw(c, "RangeError")
        ELSE Found(firstZero(c, 0, len))

\* readCString(length); length is NaN when the argument is not given
readCString(c, length) ==
    LET blen == c.byteLength - c.pos
        len == IF IsNum(length) THEN Min(Val(length), blen) ELSE blen
        Skipped(m, i) ==
            IF ~Ok(m) THEN m
            ELSE IF IsNum(length) THEN [m EXCEPT !.pos = m.pos + (len - i)]
            ELSE IF i # blen THEN [m EXCEPT !.pos = m.pos + 1]
            ELSE m
        Found(i) == Skipped(mapUint8Array(c, i), i)
    IN  IF ~Ok(c) THEN c
        ELSE IF c.pos > c.bufLen THEN Throw(c, "RangeError")
        ELSE Found(firstZero(c, 0, len))

\* readType(t) for t a type name with or without ":N"; lengthOverride is
\* NaN without it.  The value read is null for a name readType has no case
\* for.
readType(c, t, lengthOverride) ==
    LET Override(v) ==
            IF ~Ok(v) THEN v
            ELSE IF IsNum(lengthOverride)
            THEN [v EXCEPT !.pos = c.pos + Val(lengthOverride)]
            ELSE v
    IN  IF ~Ok(c) THEN c
        ELSE Override(
               CASE t = "uint8" -> NumberOf(readUint8(c))
                 [] t = "int8" -> NumberOf(readInt8(c))
                 [] t = "int16" -> NumberOf(readInt16(c))
                 [] t = "int32" -> NumberOf(readInt32(c))
                 [] t = "cstring" -> StringOf(readCString(c, lengthOverride))
                 [] t = "string" ->
                      StringOf(readString(c, IF IsNum(lengthOverride)
                                             THEN Val(lengthOverride)
                                             ELSE c.byteLength - c.pos))
                 [] t = "u16string" ->
                      StringOf(readUCS2StringOfBytes(c, 2 * Val(lengthOverride)))
                 [] OTHER -> Ret(c, Null))

\* readStruct over the types of structDefinition, each <<name, override>>:
\* a null value puts the position back to where the struct began
RECURSIVE readStructLoop(_, _, _)
readStructLoop(c, structDefinition, p) ==
    LET Read(v) ==
            IF ~Ok(v) THEN v
            ELSE IF v.ret.t = "null" THEN Ret([v EXCEPT !.pos = p], Null)
            ELSE readStructLoop(v, Tail(structDefinition), p)
    IN  IF ~Ok(c) THEN c
        ELSE IF structDefinition = <<>> THEN Ret(c, [t |-> "struct", v |-> <<>>])
        ELSE Read(readType(c, Head(structDefinition)[1], Head(structDefinition)[2]))

readStruct(c, structDefinition) == readStructLoop(c, structDefinition, c.pos)

---------------------------------------------------------------------------
(* MSG reader: header and allocation tables                                *)

\* isMSGFile
isMSGFile(c) ==
    LET Compared(r) == IF Ok(r) THEN Ret(r, r.ret = FILE_HEADER) ELSE r
    IN  Compared(readInt8Array(seek(c, N(0)), Len(FILE_HEADER)))

\* getBlockOffsetAt
getBlockOffsetAt(msgData, offset) == Times(Plus(offset, 1), msgData.bigBlockSize)

\* getBlockAt(ds, msgData, offset)[index]
getBlockAt(c, msgData, offset, index) ==
    readInt32ArrayAt(seek(c, getBlockOffsetAt(msgData, offset)),
                     msgData.bigBlockLength, index)

\* getNextBlockInner
getNextBlockInner(c, msgData, offset, blockOffsetData) ==
    LET currentBlock == Floor(offset, msgData.bigBlockLength)
        currentBlockIndex == Rem(offset, msgData.bigBlockLength)
        startBlockOffset == At(blockOffsetData, currentBlock)
    IN  getBlockAt(c, msgData, startBlockOffset, currentBlockIndex)

getNextBlock(c, msgData, offset) ==
    getNextBlockInner(c, msgData, offset, msgData.batData)

getNextBlockSmall(c, msgData, offset) ==
    getNextBlockInner(c, msgData, offset, msgData.sbatData)

\* successive ds.readInt(offset) calls: ret is the list of the values read
RECURSIVE readInts(_, _, _)
readInts(c, offsets, acc) ==
    LET Stored(r) ==
            IF Ok(r) THEN readInts(r, Tail(offsets), Append(acc, r.ret)) ELSE r
    IN  IF ~Ok(c) THEN c
        ELSE IF offsets = <<>> THEN Ret(c, acc)
        ELSE Stored(readInt(c, Head(offsets)))

\* headerData: ret is the header record
headerData(c) ==
    LET Header(c0) ==
            LET bigBlockSize == IF c0.ret = L_BIG_BLOCK_MARK
                                THEN L_BIG_BLOCK_SIZE ELSE S_BIG_BLOCK_SIZE
                Counted(c6) ==
                    IF ~Ok(c6) THEN c6
                    ELSE Ret(c6, [bigBlockSize |-> bigBlockSize,
                                  bigBlockLength |-> bigBlockSize \div 4,
                                  xBlockLength |-> (bigBlockSize \div 4) - 1,
                                  batCount |-> c6.ret[1],
                                  propertyStart |-> c6.ret[2],
                                  sbatStart |-> c6.ret[3],
                                  sbatCount |-> c6.ret[4],
                                  xbatStart |-> c6.ret[5],
                                  xbatCount |-> c6.ret[6],
                                  batData |-> <<>>,
                                  sbatData |-> <<>>,
                                  propertyData |-> <<>>,
                                  fieldsData |-> <<>>])
            IN  Counted(readInts(c0, <<N(BAT_COUNT_OFFSET), N(PROPERTY_START_OFFSET),
                                       N(SBAT_START_OFFSET), N(SBAT_COUNT_OFFSET),
                                       N(XBAT_START_OFFSET), N(XBAT_COUNT_OFFSET)>>,
                                 <<>>))
    IN  Header(readByte(c, N(BLOCK_MARK_POSITION)))

\* batCountInHeader
batCountInHeader(msgData) ==
    Min(msgData.batCount, (S_BIG_BLOCK_SIZE - BAT_START_OFFSET) \div 4)

\* the loop of batData: result[i] = ds.readInt32(), n times.  The n
\* iterations are run as the first n \div 2 followed by the rest, so that
\* the header's full BAT does not nest n evaluations.
RECURSIVE batDataLoop(_, _, _)
batDataLoop(c, n, acc) ==
    LET Stored(r) == IF Ok(r) THEN Ret(r, Append(acc, N(r.ret))) ELSE r
        Rest(h) == IF Ok(h) THEN batDataLoop(h, n - (n \div 2), h.ret) ELSE h
    IN  IF ~Ok(c) THEN c
        ELSE IF n = 0 THEN Ret(c, acc)
        ELSE IF n = 1 THEN Stored(readInt32(c))
        ELSE Rest(batDataLoop(c, n \div 2, acc))

\* batData: new Array(n) refuses a negative n
batData(c, msgData) ==
    LET Sized(n) ==
            IF n < 0 THEN Throw(c, "RangeError")
            ELSE batDataLoop(seek(c, N(BAT_START_OFFSET)), n, <<>>)
    IN  IF ~Ok(c) THEN c ELSE Sized(batCountInHeader(msgData))

\* a loop of sbatData that runs while i <= sbatCount
RECURSIVE sbatDataLoopInclusive(_, _, _, _, _)
sbatDataLoopInclusive(c, msgData, i, startIndex, acc) ==
    LET Stored(r) ==
            IF Ok(r)
            THEN sbatDataLoopInclusive(r, msgData, i + 1, r.ret, Append(acc, startIndex))
            ELSE r
    IN  IF ~Ok(c) THEN c
        ELSE IF ~(i <= msgData.sbatCount /\ startIndex # N(END_OF_CHAIN))
        THEN Ret(c, acc)
        ELSE Stored(getNextBlock(c, msgData, startIndex))

\* sbatData
RECURSIVE sbatDataLoop(_, _, _, _, _)
sbatDataLoop(c, msgData, i, startIndex, acc) ==
    LET Stored(r) ==
            IF Ok(r)
            THEN sbatDataLoop(r, msgData, i + 1, r.ret, Append(acc, startIndex))
            ELSE r
    IN  IF ~Ok(c) THEN c
        ELSE IF ~(i < msgData.sbatCount /\ startIndex # N(END_OF_CHAIN))
        THEN Ret(c, acc)
        ELSE Stored(getNextBlock(c, msgData, startIndex))

sbatData(c, msgData) == sbatDataLoop(c, msgData, 0, N(msgData.sbatStart), <<>>)

\* the iterations lo..hi-1 of the inner loop of xbatData over one XBAT
\* block: s is [acc, broke], the entries pushed so far and whether the loop
\* has left through its break; breaks says whether a sentinel ends the loop.
\* The iterations are run as a first half followed by a second half, so
\* that a full block does not nest one evaluation per entry.
RECURSIVE xbatRange(_, _, _, _, _)
xbatRange(blockOffset, lo, hi, s, breaks) ==
    LET Pushed(blockStartAt) ==
            IF blockStartAt = UNUSED_BLOCK \/ blockStartAt = END_OF_CHAIN
            THEN [acc |-> s.acc, broke |-> breaks]
            ELSE [acc |-> Append(s.acc, N(blockStartAt)), broke |-> FALSE]
        Rest(h) == xbatRange(blockOffset, lo + ((hi - lo) \div 2), hi, h, breaks)
    IN  IF s.broke \/ lo >= hi THEN s
        ELSE IF hi = lo + 1 THEN Pushed(Int32At(blockOffset + 4 * lo))
        ELSE Rest(xbatRange(blockOffset, lo, lo + ((hi - lo) \div 2), s, breaks))

\* an inner loop of xbatData that passes over a sentinel and goes on
xbatEntriesSkipping(blockOffset, j, blocksToProcess, acc) ==
    xbatRange(blockOffset, j, blocksToProcess, [acc |-> acc, broke |-> FALSE], FALSE).acc

\* the inner loop of xbatData over one XBAT block
xbatEntries(blockOffset, j, blocksToProcess, acc) ==
    xbatRange(blockOffset, j, blocksToProcess, [acc |-> acc, broke |-> FALSE], TRUE).acc

\* xbatData: ret is the extended batData
RECURSIVE xbatDataLoop(_, _, _, _, _, _)
xbatDataLoop(c, msgData, i, nextBlockAt, remainingBlocks, acc) ==
    LET blocksToProcess == Min(remainingBlocks, msgData.xBlockLength)
        Sought(s) ==
            LET Linked(r) ==
                    IF ~Ok(r) THEN r
                    ELSE xbatDataLoop(r, msgData, i + 1, Val(r.ret),
                                      remainingBlocks - blocksToProcess,
                                      xbatEntries(s.pos, 0, blocksToProcess, acc))
            IN  Linked(readInt32ArrayAt(s, msgData.bigBlockLength,
                                        N(msgData.xBlockLength)))
    IN  IF ~Ok(c) THEN c
        ELSE IF i >= msgData.xbatCount THEN Ret(c, acc)
        ELSE Sought(seek(c, getBlockOffsetAt(msgData, N(nextBlockAt))))

xbatData(c, msgData) ==
    xbatDataLoop(c, msgData, 0, msgData.xbatStart,
                 msgData.batCount - batCountInHeader(msgData), msgData.batData)

---------------------------------------------------------------------------
(* MSG reader: property records and their hierarchy                        *)
(* props is the flat JS array (index 0 first); a null entry is HoleProp.   *)

HoleProp == [hole |-> TRUE]
IsHole(p) == p.hole

\* props[i] for a JS index i: a record, or nothing (null / undefined)
HasProp(props, i) == i \in 0..(Len(props) - 1) /\ ~IsHole(props[i + 1])
Prop(props, i) == props[i + 1]

\* convertName: ret is the name as a sequence of UTF-16 code units
convertName(c, offset) ==
    LET Sized(r) ==
            IF ~Ok(r) THEN r
            ELSE IF r.ret < 1 THEN Ret(r, <<>>)
            ELSE readUCS2StringOfBytes(seek(r, offset), r.ret)
    IN  Sized(readShort(c, Plus(offset, NAME_SIZE_OFFSET)))

\* convertProperty
convertProperty(c, index, offset) ==
    LET Typed(c0) ==
            LET Named(c1) ==
                    LET Linked(c6) ==
                            IF ~Ok(c6) THEN c6
                            ELSE Ret(c6, [hole |-> FALSE,
                                          index |-> index,
                                          type |-> c0.ret,
                                          name |-> c1.ret,
                                          previousProperty |-> c6.ret[1],
                                          nextProperty |-> c6.ret[2],
                                          childProperty |-> c6.ret[3],
                                          startBlock |-> c6.ret[4],
                                          sizeBlock |-> c6.ret[5],
                                          hasChildren |-> FALSE,
                                          children |-> <<>>])
                    IN  Linked(readInts(c1,
                                        <<Plus(offset, PREVIOUS_PROPERTY_OFFSET),
                                          Plus(offset, NEXT_PROPERTY_OFFSET),
                                          Plus(offset, CHILD_PROPERTY_OFFSET),
                                          Plus(offset, START_BLOCK_OFFSET),
                                          Plus(offset, SIZE_OFFSET)>>, <<>>))
            IN  Named(convertName(c0, offset))
    IN  Typed(readByte(c, Plus(offset, TYPE_OFFSET)))

\* a slot loop that pushes nothing for a slot of unknown type
RECURSIVE convertSlotsDense(_, _, _, _)
convertSlotsDense(c, i, propertyOffset, props) ==
    LET Pushed(r) ==
            IF ~Ok(r) THEN r
            ELSE convertSlotsDense(r, i - 1, Plus(propertyOffset, PROPERTY_SIZE),
                                   Append(props, r.ret))
        Typed(t) ==
            IF ~Ok(t) THEN t
            ELSE IF t.ret \in {TYPE_ROOT, TYPE_DIRECTORY, TYPE_DOCUMENT}
            THEN Pushed(convertProperty(t, Len(props), propertyOffset))
            ELSE convertSlotsDense(t, i - 1, Plus(propertyOffset, PROPERTY_SIZE), props)
    IN  IF ~Ok(c) THEN c
        ELSE IF i = 0 THEN Ret(c, props)
        ELSE Typed(readByte(c, Plus(propertyOffset, TYPE_OFFSET)))

\* the slot loop of convertBlockToProperties: ret is the grown props array
RECURSIVE convertSlots(_, _, _, _)
convertSlots(c, i, propertyOffset, props) ==
    LET Pushed(r) ==
            IF ~Ok(r) THEN r
            ELSE convertSlots(r, i - 1, Plus(propertyOffset, PROPERTY_SIZE),
                              Append(props, r.ret))
        Typed(t) ==
            IF ~Ok(t) THEN t
            ELSE IF t.ret \in {TYPE_ROOT, TYPE_DIRECTORY, TYPE_DOCUMENT}
            THEN Pushed(convertProperty(t, Len(props), propertyOffset))
            ELSE Pushed(Ret(t, HoleProp))
    IN  IF ~Ok(c) THEN c
        ELSE IF i = 0 THEN Ret(c, props)
        ELSE Typed(readByte(c, Plus(propertyOffset, TYPE_OFFSET)))

convertBlockToProperties(c, msgData, propertyBlockOffset, props) ==
    convertSlots(c, msgData.bigBlockSize \div PROPERTY_SIZE,
                 getBlockOffsetAt(msgData, propertyBlockOffset), props)

\* createPropertyHierarchy.  Each work item carries the indices it was
\* reached through: an item that is its own ancestor is on a sibling cycle,
\* and the while loop then never empties its work list ("hang", reported
\* once the rest of the list has been served, as the real loop serves every
\* item).  `stack` holds the directories whose call is open: re-entering one
\* of them recurses without end, which the engine stops with a RangeError.
RECURSIVE createPropertyHierarchy(_, _, _)
RECURSIVE hierarchyLoop(_, _, _, _, _)

hierarchyLoop(props, nodeIdx, work, stack, cyclic) ==
    IF work = <<>>
    THEN [st |-> IF cyclic THEN "hang" ELSE "ok", props |-> props]
    ELSE LET currentIndex == Head(work).i
             path == Head(work).path
         IN  IF ~HasProp(props, currentIndex)
             THEN hierarchyLoop(props, nodeIdx, Tail(work), stack, cyclic)
             ELSE IF currentIndex \in path
             THEN hierarchyLoop(props, nodeIdx, Tail(work), stack, TRUE)
             ELSE LET current == Prop(props, currentIndex)
                      sub == path \cup {currentIndex}
                      prev == IF current.previousProperty # NO_INDEX
                              THEN <<[i |-> current.previousProperty, path |-> sub]>>
                              ELSE <<>>
                      next == IF current.nextProperty # NO_INDEX
                              THEN <<[i |-> current.nextProperty, path |-> sub]>>
                              ELSE <<>>
                      Descended(rec) ==
                          IF rec.st # "ok" THEN rec
                          ELSE hierarchyLoop(rec.props, nodeIdx,
                                             Tail(work) \o prev \o next, stack, cyclic)
                      Pushed(pushed) ==
                          IF current.type # TYPE_DIRECTORY
                          THEN Descended([st |-> "ok", props |-> pushed])
                          ELSE IF currentIndex \in stack
                          THEN [st |-> "RangeError", props |-> pushed]
                          ELSE Descended(createPropertyHierarchy(pushed, currentIndex,
                                                                 stack))
                  IN  Pushed([props EXCEPT ![nodeIdx + 1].children =
                                 Append(@, currentIndex)])

createPropertyHierarchy(props, nodeIdx, stack) ==
    IF Prop(props, nodeIdx).childProperty = NO_INDEX
    THEN [st |-> "ok", props |-> props]
    ELSE hierarchyLoop(
            [props EXCEPT ![nodeIdx + 1].children = <<>>,
                          ![nodeIdx + 1].hasChildren = TRUE],
            nodeIdx,
            <<[i |-> Prop(props, nodeIdx).childProperty, path |-> {}]>>,
            stack \cup {nodeIdx}, FALSE)

\* the while loop of propertyData.  The next offset depends on the current
\* one only, so a walk that comes back to an offset it already converted
\* never reaches END_OF_CHAIN: "hang".
RECURSIVE propertyWalk(_, _, _, _, _)
propertyWalk(c, msgData, currentOffset, props, visited) ==
    LET Converted(b) ==
            LET Linked(n) ==
                    IF ~Ok(n) THEN n
                    ELSE propertyWalk(n, msgData, n.ret, b.ret,
                                      visited \cup {currentOffset})
            IN  Linked(getNextBlock(b, msgData, currentOffset))
    IN  IF ~Ok(c) THEN c
        ELSE IF currentOffset = N(END_OF_CHAIN) THEN Ret(c, props)
        ELSE IF currentOffset \in visited THEN Throw(c, "hang")
        ELSE Converted(convertBlockToProperties(c, msgData, currentOffset, props))

\* propertyData: ret is props with the children lists filled in;
\* props[0] that is undefined or null has no childProperty to read: TypeError
propertyData(c, msgData) ==
    LET Walked(w) ==
            LET Arranged(h) == IF h.st = "ok" THEN Ret(w, h.props) ELSE Throw(w, h.st)
            IN  IF ~Ok(w) THEN w
                ELSE IF ~HasProp(w.ret, 0) THEN Throw(w, "TypeError")
                ELSE Arranged(createPropertyHierarchy(w.ret, 0, {}))
    IN  Walked(propertyWalk(c, msgData, N(msgData.propertyStart), <<>>, {}))

---------------------------------------------------------------------------
(* Strings: a JS string is the sequence of its UTF-16 code units           *)

Ord == ("_" :> 95) @@ ("." :> 46) @@ ("0" :> 48) @@ ("1" :> 49)
       @@ ("a" :> 97) @@ ("b" :> 98) @@ ("c" :> 99) @@ ("e" :> 101)
       @@ ("g" :> 103) @@ ("h" :> 104) @@ ("i" :> 105) @@ ("n" :> 110)
       @@ ("o" :> 111) @@ ("p" :> 112) @@ ("r" :> 114) @@ ("s" :> 115)
       @@ ("t" :> 116) @@ ("u" :> 117) @@ ("v" :> 118)
Str(t) == [i \in DOMAIN t |-> Ord[t[i]]]

\* a 4-digit lower-case hexadecimal key such as '0c1a', from its digit values
HexLower(d) == IF d < 10 THEN 48 + d ELSE 87 + d
Hex4(a, b, c, d) == <<HexLower(a), HexLower(b), HexLower(c), HexLower(d)>>

\* String.prototype.substring(start, end) with its clamping
substring(str, start, end) ==
    LET a == Max(0, Min(start, Len(str)))
        b == Max(0, Min(end, Len(str)))
    IN  SubSeq(str, Min(a, b) + 1, Max(a, b))

\* a toLowerCase that leaves the letters as they are
toLowerCaseKept(str) == str

\* String.prototype.toLowerCase on the ASCII letters
toLowerCase(str) ==
    [i \in DOMAIN str |-> IF str[i] \in 65..90 THEN str[i] + 32 ELSE str[i]]

\* str.indexOf(prefix) == 0
StartsWith(str, prefix) ==
    Len(str) >= Len(prefix) /\ SubSeq(str, 1, Len(prefix)) = prefix

PREFIX_ATTACHMENT ==
    Str(<<"_", "_", "a", "t", "t", "a", "c", "h", "_", "v", "e", "r", "s",
          "i", "o", "n", "1", ".", "0">>)
PREFIX_RECIPIENT ==
    Str(<<"_", "_", "r", "e", "c", "i", "p", "_", "v", "e", "r", "s", "i",
          "o", "n", "1", ".", "0">>)
PREFIX_DOCUMENT ==
    Str(<<"_", "_", "s", "u", "b", "s", "t", "g", "1", ".">>)
NAME_OFFSET == 12

\* CONST.MSG.FIELD.NAME_MAPPING[fieldClass], "" when the key is absent
NAME_MAPPING(fieldClass) ==
    CASE fieldClass = Hex4(0, 0, 3, 7) -> "subject"
      [] fieldClass = Hex4(0, 12, 1, 10) -> "senderName"
      [] fieldClass = Hex4(5, 13, 0, 2) -> "senderEmail"
      [] fieldClass = Hex4(1, 0, 0, 0) -> "body"
      [] fieldClass = Hex4(1, 0, 1, 3) -> "bodyHTML"
      [] fieldClass = Hex4(0, 0, 7, 13) -> "headers"
      [] fieldClass = Hex4(3, 7, 0, 3) -> "extension"
      [] fieldClass = Hex4(3, 7, 0, 4) -> "fileNameShort"
      [] fieldClass = Hex4(3, 7, 0, 7) -> "fileName"
      [] fieldClass = Hex4(3, 7, 1, 2) -> "pidContentId"
      [] fieldClass = Hex4(3, 7, 0, 14) -> "mimeType"
      [] fieldClass = Hex4(3, 0, 0, 1) -> "name"
      [] fieldClass = Hex4(3, 9, 15, 14) -> "email"
      [] OTHER -> ""

ATTACHMENT_DATA == Hex4(3, 7, 0, 1)
INNER_MSG == Hex4(0, 0, 0, 13)

\* CONST.MSG.FIELD.TYPE_MAPPING[fieldType], "" when the key is absent
TYPE_MAPPING(fieldType) ==
    CASE fieldType = Hex4(0, 0, 1, 14) -> "string"
      [] fieldType = Hex4(0, 0, 1, 15) -> "unicode"
      [] fieldType = Hex4(0, 1, 0, 2) -> "binary"
      [] OTHER -> ""

\* a getFieldType that takes the class code where the type code is
getFieldTypeOfClass(fieldProperty) ==
    substring(toLowerCase(substring(fieldProperty.name, NAME_OFFSET,
                                    Len(fieldProperty.name))), 0, 4)

\* getFieldType
getFieldType(fieldProperty) ==
    substring(toLowerCase(substring(fieldProperty.name, NAME_OFFSET,
                                    Len(fieldProperty.name))), 4, 8)

\* JS values stored in a field set
StringValue(str) == [t |-> "string", v |-> str]
BytesValue(bytes) == [t |-> "bytes", v |-> bytes]
NullValue == [t |-> "null", v |-> <<>>]
NumberValue(n) == [t |-> "number", v |-> n]
TrueValue == [t |-> "boolean", v |-> TRUE]

\* TextDecoder('utf-8').decode: WHATWG UTF-8 decoding to UTF-16 code units,
\* U+FFFD for every maximal ill-formed prefix, a leading BOM dropped
Continuation(b) == b \in 128..191
Utf8SecondOk(lead, b) ==
    CASE lead = 224 -> b \in 160..191
      [] lead = 237 -> b \in 128..159
      [] lead = 240 -> b \in 144..191
      [] lead = 244 -> b \in 128..143
      [] OTHER -> Continuation(b)

RECURSIVE utf8Decode(_, _)
utf8Decode(bytes, i) ==
    IF i > Len(bytes) THEN <<>>
    ELSE LET b == bytes[i]
             has(k) == i + k <= Len(bytes)
         IN  IF b < 128 THEN <<b>> \o utf8Decode(bytes, i + 1)
             ELSE IF b \in 194..223
             THEN IF has(1) /\ Continuation(bytes[i + 1])
                  THEN <<(b - 192) * 64 + (bytes[i + 1] - 128)>>
                         \o utf8Decode(bytes, i + 2)
                  ELSE <<65533>> \o utf8Decode(bytes, i + 1)
             ELSE IF b \in 224..239
             THEN IF ~(has(1) /\ Utf8SecondOk(b, bytes[i + 1]))
                  THEN <<65533>> \o utf8Decode(bytes, i + 1)
                  ELSE IF ~(has(2) /\ Continuation(bytes[i + 2]))
                  THEN <<65533>> \o utf8Decode(bytes, i + 2)
                  ELSE <<(b - 224) * 4096 + (bytes[i + 1] - 128) * 64
                           + (bytes[i + 2] - 128)>> \o utf8Decode(bytes, i + 3)
             ELSE IF b \in 240..244
             THEN IF ~(has(1) /\ Utf8SecondOk(b, bytes[i + 1]))
                  THEN <<65533>> \o utf8Decode(bytes, i + 1)
                  ELSE IF ~(has(2) /\ Continuation(bytes[i + 2]))
                  THEN <<65533>> \o utf8Decode(bytes, i + 2)
                  ELSE IF ~(has(3) /\ Continuation(bytes[i + 3]))
                  THEN <<65533>> \o utf8Decode(bytes, i + 3)
                  ELSE LET cp == (b - 240) * 262144 + (bytes[i + 1] - 128) * 4096
                                   + (bytes[i + 2] - 128) * 64 + (bytes[i + 3] - 128)
                       IN  <<55296 + ((cp - 65536) \div 1024),
                             56320 + ((cp - 65536) % 1024)>>
                             \o utf8Decode(bytes, i + 4)
             ELSE <<65533>> \o utf8Decode(bytes, i + 1)

\* convertUint8ArrayToString
convertUint8ArrayToString(bytes) ==
    IF Len(bytes) >= 3 /\ SubSeq(bytes, 1, 3) = <<239, 187, 191>>
    THEN utf8Decode(bytes, 4) ELSE utf8Decode(bytes, 1)

\* an isAddPropertyValue that lets every value through
isAddPropertyValueAlways(fieldName, fieldTypeMapped) == TRUE

\* isAddPropertyValue
isAddPropertyValue(fieldName, fieldTypeMapped) ==
    fieldName # "body" \/ fieldTypeMapped # "binary"

\* applyValueConverter (for a value that is not null)
applyValueConverter(fieldName, fieldTypeMapped, fieldValue) ==
    IF fieldTypeMapped = "binary" /\ fieldName = "bodyHTML"
    THEN StringValue(convertUint8ArrayToString(fieldValue.v))
    ELSE fieldValue

---------------------------------------------------------------------------
(* MSG reader: field values                                                *)

\* extractorFieldValue.sbat.dataType[typeMapped]: seek, then decode
sbatDataType(c, typeMapped, blockStartOffset, bigBlockOffset, blockSize) ==
    LET AsString(r) == IF Ok(r) THEN Ret(r, StringValue(r.ret)) ELSE r
        AsBytes(r) == IF Ok(r) THEN Ret(r, BytesValue(r.ret)) ELSE r
        Sought(s) ==
            CASE typeMapped = "string" -> AsString(readString(s, blockSize))
              [] typeMapped = "unicode" -> AsString(readUCS2StringOfBytes(s, blockSize))
              [] typeMapped = "binary" -> AsBytes(readUint8Array(s, blockSize))
    IN  Sought(seek(c, IF IsNum(blockStartOffset) /\ IsNum(bigBlockOffset)
                       THEN N(Val(blockStartOffset) + Val(bigBlockOffset)) ELSE NaN))

\* the for loop of readDataByBlockSmall over the root stream's BAT chain
RECURSIVE rootChainWalk(_, _, _, _)
rootChainWalk(c, msgData, i, nextBlock) ==
    LET Linked(r) == IF Ok(r) THEN rootChainWalk(r, msgData, i - 1, r.ret) ELSE r
    IN  IF ~Ok(c) THEN c
        ELSE IF i <= 0 THEN Ret(c, nextBlock)
        ELSE Linked(getNextBlock(c, msgData, nextBlock))

\* readDataByBlockSmall
readDataByBlockSmall(c, msgData, startBlock, blockSize, typeMapped) ==
    LET byteOffset == Times(startBlock, SMALL_BLOCK_SIZE)
        bigBlockNumber == Floor(byteOffset, msgData.bigBlockSize)
        bigBlockOffset == Rem(byteOffset, msgData.bigBlockSize)
        rootProp == Prop(msgData.propertyData, 0)
        Walked(w) ==
            IF ~Ok(w) THEN w
            ELSE sbatDataType(w, typeMapped, getBlockOffsetAt(msgData, w.ret),
                              bigBlockOffset, blockSize)
    IN  Walked(rootChainWalk(c, msgData,
                             IF IsNum(bigBlockNumber) THEN Val(bigBlockNumber) ELSE 0,
                             N(rootProp.startBlock)))

\* the while loop of getChainByBlockSmall.  The next small block depends on
\* the current one only, so a chain that returns to a block never reaches
\* END_OF_CHAIN: "hang".
RECURSIVE chainWalkSmall(_, _, _, _)
chainWalkSmall(c, msgData, nextBlockSmall, blockChain) ==
    LET Linked(r) ==
            IF Ok(r)
            THEN chainWalkSmall(r, msgData, r.ret, Append(blockChain, nextBlockSmall))
            ELSE r
    IN  IF ~Ok(c) THEN c
        ELSE IF nextBlockSmall = N(END_OF_CHAIN) THEN Ret(c, blockChain)
        ELSE IF \E k \in DOMAIN blockChain : blockChain[k] = nextBlockSmall
        THEN Throw(c, "hang")
        ELSE Linked(getNextBlockSmall(c, msgData, nextBlockSmall))

getChainByBlockSmall(c, msgData, fieldProperty) ==
    chainWalkSmall(c, msgData, N(fieldProperty.startBlock), <<>>)

\* the block loop of readChainDataByBlockSmall: ret is every small block's
\* 64 bytes, concatenated in chain order
RECURSIVE chainData(_, _, _, _, _)
chainData(c, msgData, chain, i, acc) ==
    LET Copied(r) ==
            IF Ok(r) THEN chainData(r, msgData, chain, i + 1, acc \o r.ret.v) ELSE r
    IN  IF ~Ok(c) THEN c
        ELSE IF i > Len(chain) THEN Ret(c, acc)
        ELSE Copied(readDataByBlockSmall(c, msgData, chain[i], SMALL_BLOCK_SIZE,
                                         "binary"))

\* a result array as long as the blocks read, not as the declared size
ResultDataWhole(data, sizeBlock) == [i \in 1..Len(data) |-> Signed8(data[i])]

\* new Int8Array(sizeBlock) filled from the blocks: writes past its end are
\* dropped, bytes never written stay 0
ResultData(data, sizeBlock) ==
    [i \in 1..sizeBlock |-> IF i <= Len(data) THEN Signed8(data[i]) ELSE 0]

\* the byte a Uint8Array or a DataView shows for an Int8Array element
Unsigned8(x) == (x + 256) % 256

\* the extractor applied to localDs, a fresh stream over resultData
localDataType(typeMapped, resultData, blockSize) ==
    CASE typeMapped = "string" ->
           [st |-> "ok",
            v |-> StringValue([i \in 1..Len(resultData) |-> Unsigned8(resultData[i])])]
      [] typeMapped = "unicode" ->
           IF blockSize % 2 = 1 THEN [st |-> "RangeError", v |-> NullValue]
           ELSE [st |-> "ok",
                 v |-> StringValue([i \in 1..(blockSize \div 2) |->
                          Unsigned8(resultData[2 * i - 1])
                            + 256 * Unsigned8(resultData[2 * i])])]
      [] typeMapped = "binary" ->
           [st |-> "ok",
            v |-> BytesValue([i \in 1..Len(resultData) |-> Unsigned8(resultData[i])])]

\* readChainDataByBlockSmall: new Int8Array refuses a negative size
readChainDataByBlockSmall(c, msgData, fieldProperty, chain, typeMapped) ==
    LET Gathered(d) ==
            LET Decoded(l) == IF l.st = "ok" THEN Ret(d, l.v) ELSE Throw(d, l.st)
            IN  IF ~Ok(d) THEN d
                ELSE Decoded(localDataType(typeMapped,
                                           ResultData(d.ret, fieldProperty.sizeBlock),
                                           fieldProperty.sizeBlock))
    IN  IF fieldProperty.sizeBlock < 0 THEN Throw(c, "RangeError")
        ELSE Gathered(chainData(c, msgData, chain, 1, <<>>))

\* extractorFieldValue.sbat.extractor (extractDataViaSbat)
extractDataViaSbat(c, msgData, fieldProperty, typeMapped) ==
    LET Chained(ch) ==
            IF ~Ok(ch) THEN ch
            ELSE IF Len(ch.ret) = 1
            THEN readDataByBlockSmall(ch, msgData, N(fieldProperty.startBlock),
                                      fieldProperty.sizeBlock, typeMapped)
            ELSE IF Len(ch.ret) > 1
            THEN readChainDataByBlockSmall(ch, msgData, fieldProperty, ch.ret,
                                           typeMapped)
            ELSE Ret(ch, NullValue)
    IN  Chained(getChainByBlockSmall(c, msgData, fieldProperty))

\* extractorFieldValue.bat.extractor with bat.dataType[typeMapped]
extractDataViaBat(c, msgData, fieldProperty, typeMapped) ==
    LET AsString(r) == IF Ok(r) THEN Ret(r, StringValue(r.ret)) ELSE r
        AsBytes(r) == IF Ok(r) THEN Ret(r, BytesValue(r.ret)) ELSE r
        Sought(s) ==
            CASE typeMapped = "string" ->
                   AsString(readString(s, fieldProperty.sizeBlock))
              [] typeMapped = "unicode" ->
                   AsString(readUCS2StringOfBytes(s, fieldProperty.sizeBlock))
              [] typeMapped = "binary" ->
                   AsBytes(readUint8Array(s, fieldProperty.sizeBlock))
    IN  Sought(seek(c, getBlockOffsetAt(msgData, N(fieldProperty.startBlock))))

\* getFieldValue: ret is the decoded value, null without a decoder
getFieldValue(c, msgData, fieldProperty, typeMapped) ==
    IF ~Ok(c) THEN c
    ELSE IF typeMapped = "" THEN Ret(c, NullValue)
    ELSE IF fieldProperty.sizeBlock < BIG_BLOCK_MIN_DOC_SIZE
    THEN extractDataViaSbat(c, msgData, fieldProperty, typeMapped)
    ELSE extractDataViaBat(c, msgData, fieldProperty, typeMapped)

---------------------------------------------------------------------------
(* MSG reader: the field extractor                                         *)
(* A field set is a function from key to value; {} is the empty function.  *)

EmptyFields == <<>>
HasKey(fields, key) == key \in DOMAIN fields
SetKey(fields, key, value) ==
    [k \in DOMAIN fields \cup {key} |-> IF k = key THEN value ELSE fields[k]]

\* fieldsDataDocument
fieldsDataDocument(c, msgData, documentProperty, fields) ==
    LET value == toLowerCase(substring(documentProperty.name, NAME_OFFSET,
                                       Len(documentProperty.name)))
        fieldClass == substring(value, 0, 4)
        fieldType == substring(value, 4, 8)
        Mapped(fieldName, fieldTypeMapped) ==
            LET Numbered(named) ==
                    IF fieldClass = ATTACHMENT_DATA
                    THEN SetKey(SetKey(named, "dataId",
                                       NumberValue(documentProperty.index)),
                                "contentLength",
                                NumberValue(documentProperty.sizeBlock))
                    ELSE named
                Valued(g) ==
                    IF ~Ok(g) THEN g
                    ELSE IF fieldName = "bodyHTML" /\ fieldTypeMapped = "binary"
                            /\ g.ret = NullValue
                    THEN Throw(g, "TypeError")     \* TextDecoder.decode(null)
                    ELSE IF isAddPropertyValue(fieldName, fieldTypeMapped)
                    THEN Ret(g, Numbered(SetKey(fields, fieldName,
                                   applyValueConverter(fieldName, fieldTypeMapped,
                                                       g.ret))))
                    ELSE Ret(g, Numbered(fields))
            IN  IF fieldName # ""
                THEN Valued(getFieldValue(c, msgData, documentProperty,
                                          fieldTypeMapped))
                ELSE Ret(c, Numbered(fields))
    IN  Mapped(NAME_MAPPING(fieldClass), TYPE_MAPPING(fieldType))

RECURSIVE fieldsDataDir(_, _, _, _)
RECURSIVE fieldsDataDirLoop(_, _, _, _, _)
RECURSIVE fieldsDataDirInner(_, _, _, _)

\* fieldsDataDirInner: only the top-level field set has the attachments and
\* recipients lists to push to
fieldsDataDirInner(c, msgData, dirProperty, fields) ==
    LET Listed(list) ==
            LET Pushed(r) ==
                    IF ~Ok(r) THEN r
                    ELSE Ret(r, SetKey(fields, list, Append(fields[list], r.ret)))
            IN  IF list # ""
                THEN IF ~HasKey(fields, list) THEN Throw(c, "TypeError")
                     ELSE Pushed(fieldsDataDir(c, msgData, dirProperty, EmptyFields))
                ELSE IF getFieldType(dirProperty) # INNER_MSG
                THEN fieldsDataDir(c, msgData, dirProperty, fields)
                ELSE Ret(c, SetKey(fields, "innerMsgContent", TrueValue))
    IN  Listed(IF StartsWith(dirProperty.name, PREFIX_ATTACHMENT) THEN "attachments"
               ELSE IF StartsWith(dirProperty.name, PREFIX_RECIPIENT) THEN "recipients"
               ELSE "")

\* the loop of fieldsDataDir over dirProperty.children
fieldsDataDirLoop(c, msgData, children, i, fields) ==
    LET Visited(r) ==
            IF ~Ok(r) THEN r
            ELSE fieldsDataDirLoop(r, msgData, children, i + 1, r.ret)
        Child(childProperty) ==
            IF childProperty.type = TYPE_DIRECTORY
            THEN fieldsDataDirInner(c, msgData, childProperty, fields)
            ELSE IF childProperty.type = TYPE_DOCUMENT
                    /\ StartsWith(childProperty.name, PREFIX_DOCUMENT)
            THEN fieldsDataDocument(c, msgData, childProperty, fields)
            ELSE Ret(c, fields)
    IN  IF ~Ok(c) THEN c
        ELSE IF i > Len(children) THEN Ret(c, fields)
        ELSE Visited(Child(Prop(msgData.propertyData, children[i])))

fieldsDataDir(c, msgData, dirProperty, fields) ==
    IF dirProperty.hasChildren /\ Len(dirProperty.children) > 0
    THEN fieldsDataDirLoop(c, msgData, dirProperty.children, 1, fields)
    ELSE Ret(c, fields)

\* fieldsData
fieldsData(c, msgData) ==
    IF ~Ok(c) THEN c
    ELSE fieldsDataDir(c, msgData, Prop(msgData.propertyData, 0),
                       [k \in {"attachments", "recipients"} |-> <<>>])

\* parseMsgData: ret is msgData
parseMsgData(c) ==
    LET Bat(h) ==
            LET Set(b) ==
                    IF Ok(b) THEN Ret(b, [h.ret EXCEPT !.batData = b.ret]) ELSE b
            IN  IF Ok(h) THEN Set(batData(h, h.ret)) ELSE h
        Sbat(m) ==
            LET Set(s) ==
                    IF Ok(s) THEN Ret(s, [m.ret EXCEPT !.sbatData = s.ret]) ELSE s
            IN  IF Ok(m) THEN Set(sbatData(m, m.ret)) ELSE m
        Xbat(m) ==
            LET Set(x) ==
                    IF Ok(x) THEN Ret(x, [m.ret EXCEPT !.batData = x.ret]) ELSE x
            IN  IF Ok(m) /\ m.ret.xbatCount > 0 THEN Set(xbatData(m, m.ret)) ELSE m
        Properties(m) ==
            LET Set(p) ==
                    IF Ok(p) THEN Ret(p, [m.ret EXCEPT !.propertyData = p.ret]) ELSE p
            IN  IF Ok(m) THEN Set(propertyData(m, m.ret)) ELSE m
        Fields(m) ==
            LET Set(f) ==
                    IF Ok(f) THEN Ret(f, [m.ret EXCEPT !.fieldsData = f.ret]) ELSE f
            IN  IF Ok(m) THEN Set(fieldsData(m, m.ret)) ELSE m
    IN  Fields(Properties(Xbat(Sbat(Bat(headerData(c))))))

---------------------------------------------------------------------------
(* MSGReader: the facade                                                   *)

Readers == {1, 2}

NoFileData == [set |-> FALSE, msg |-> <<>>]
UndefinedValue == [t |-> "undefined", v |-> <<>>]

\* what a call gave back: the value it returned, or how it ended
Returned(op, kind, value) == [op |-> op, kind |-> kind, value |-> value]
\* a call as the state records it: what it gave back and the argument it
\* was made with
NoArg == <<"none", 0>>
Called(outcome, arg) ==
    [op |-> outcome.op, kind |-> outcome.kind, value |-> outcome.value, arg |-> arg]
NoResult == Called(Returned("none", "none", <<>>), NoArg)
Ended(op, c) == Returned(op, IF c.st = "hang" THEN "hang" ELSE "throw", c.st)

\* MSGReader.prototype.getFileData as [c, fileData, result, parsed]
getFileData(d, fd) ==
    LET Parsed(p) ==
            IF ~Ok(p)
            THEN [c |-> p, fileData |-> fd, result |-> Ended("getFileData", p),
                  parsed |-> TRUE]
            ELSE [c |-> p, fileData |-> [set |-> TRUE, msg |-> p.ret],
                  parsed |-> TRUE,
                  result |-> Returned("getFileData", "fields", p.ret.fieldsData)]
        Checked(sig) ==
            IF ~Ok(sig)
            THEN [c |-> sig, fileData |-> fd, parsed |-> FALSE,
                  result |-> Ended("getFileData", sig)]
            ELSE IF ~sig.ret
            THEN [c |-> sig, fileData |-> fd, parsed |-> FALSE,
                  result |-> Returned("getFileData", "error", "Unsupported file type!")]
            ELSE IF fd.set
            THEN [c |-> sig, fileData |-> fd, parsed |-> FALSE,
                  result |-> Returned("getFileData", "fields", fd.msg.fieldsData)]
            ELSE Parsed(parseMsgData(sig))
    IN  Checked(isMSGFile(Ctx(d)))

\* MSGReader.prototype.getAttachment(attach): attach is a number (an index
\* into fieldsData.attachments) or an attachment record
getAttachment(d, fd, attach, isNumber) ==
    LET c == Ctx(d)
        attachments == fd.msg.fieldsData["attachments"]
        attachData == IF isNumber THEN attachments[attach + 1] ELSE attach
        fieldProperty == Prop(fd.msg.propertyData, attachData["dataId"].v)
        Read(g) ==
            IF ~Ok(g) THEN [c |-> g, result |-> Ended("getAttachment", g)]
            ELSE [c |-> g,
                  result |-> Returned("getAttachment", "attachment",
                               [fileName |-> IF HasKey(attachData, "fileName")
                                             THEN attachData["fileName"]
                                             ELSE UndefinedValue,
                                content |-> g.ret])]
    IN  IF ~fd.set THEN [c |-> c, result |-> Ended("getAttachment", Throw(c, "TypeError"))]
        ELSE IF isNumber /\ attach \notin 0..(Len(attachments) - 1)
        THEN [c |-> c, result |-> Ended("getAttachment", Throw(c, "TypeError"))]
        ELSE IF ~HasKey(attachData, "dataId")
        THEN [c |-> c, result |-> Ended("getAttachment", Throw(c, "TypeError"))]
        ELSE Read(getFieldValue(c, fd.msg, fieldProperty,
                                TYPE_MAPPING(getFieldType(fieldProperty))))

---------------------------------------------------------------------------
(* Building blocks of the input files.  The id of a file names the family *)
(* it belongs to and its parameters; the reader never looks at it.         *)

GoodSignature == <<208, 207, 17, 224, 161, 177, 26, 225>>

HexUpper(d) == IF d < 10 THEN 48 + d ELSE 55 + d
UpperHex4(q) == <<HexUpper(q[1]), HexUpper(q[2]), HexUpper(q[3]), HexUpper(q[4])>>

\* "__substg1.0_" followed by the class and type codes: a stream name as
\* Outlook writes it
SubstgName(class, type) ==
    PREFIX_DOCUMENT \o <<48, 95>> \o UpperHex4(class) \o UpperHex4(type)

AttachName == PREFIX_ATTACHMENT \o <<95, 35, 48, 48>>       \* ..._#00
RecipName == PREFIX_RECIPIENT \o <<95, 35, 48, 48>>
PlainDirName == Str(<<"_", "_", "n", "a", "b", "_", "v", "e", "r", "s", "i", "o", "n",
                      "1", ".", "0">>)
RootName == <<82, 111, 111, 116, 32, 69, 110, 116, 114, 121>>   \* Root Entry

ClassSubject == <<0, 0, 3, 7>>
ClassBody == <<1, 0, 0, 0>>
ClassBodyHTML == <<1, 0, 1, 3>>
ClassFileName == <<3, 7, 0, 7>>
ClassAttachData == <<3, 7, 0, 1>>
ClassRecipName == <<3, 0, 0, 1>>
TypeString == <<0, 0, 1, 14>>
TypeUnicode == <<0, 0, 1, 15>>
TypeBinary == <<0, 1, 0, 2>>
TypeInnerMsg == <<0, 0, 0, 13>>
TypeLong == <<0, 0, 0, 3>>           \* a type code without a decoder

Hello == <<72, 101, 108, 108, 111>>
Utf16(str) == [i \in 1..(2 * Len(str)) |-> IF i % 2 = 1 THEN str[(i + 1) \div 2] ELSE 0]

RootSlot(child, start) ==
    [type |-> TYPE_ROOT, name |-> RootName, prev |-> NO_INDEX, next |-> NO_INDEX,
     child |-> child, start |-> start, size |-> S_BIG_BLOCK_SIZE]
DirSlot(name, prev, next, child) ==
    [type |-> TYPE_DIRECTORY, name |-> name, prev |-> prev, next |-> next,
     child |-> child, start |-> 0, size |-> 0]
DocSlot(name, prev, next, start, size) ==
    [type |-> TYPE_DOCUMENT, name |-> name, prev |-> prev, next |-> next,
     child |-> NO_INDEX, start |-> start, size |-> size]

\* bytes padded with zeros to n bytes
Padded(bytes, n) == [i \in 1..n |-> IF i <= Len(bytes) THEN bytes[i] ELSE 0]

RECURSIVE SmallBlocks(_)
SmallBlocks(chunks) ==
    IF chunks = <<>> THEN <<>>
    ELSE Padded(Head(chunks), SMALL_BLOCK_SIZE) \o SmallBlocks(Tail(chunks))

\* The standard layout: block 0 the BAT, block 1 the first property block,
\* block 2 the SBAT, block 3 the root stream holding the small blocks,
\* block 4 a second property block, further blocks as given.
StdFile(id, slotsA, slotsB, propNext, sbat, chunks, more, batMore) ==
    [id |-> id,
     len |-> S_BIG_BLOCK_SIZE * (6 + Len(more)),
     sig |-> GoodSignature, mark |-> 9,
     batCount |-> 1, propertyStart |-> 1,
     sbatStart |-> 2, sbatCount |-> 1,
     xbatStart |-> END_OF_CHAIN, xbatCount |-> 0,
     hbat |-> <<0>>,
     blocks |-> <<IntsBlock(<<-3, propNext, END_OF_CHAIN>> \o batMore),
                  PropsBlock(slotsA),
                  IntsBlock(sbat),
                  DataBlock(SmallBlocks(chunks)),
                  PropsBlock(slotsB)>> \o more]

WithLen(f, len) == [f EXCEPT !.len = len]
WithSig(f, sig) == [f EXCEPT !.sig = sig]
WithId(f, id) == [f EXCEPT !.id = id]

\* BAT entries of blocks 3 and 4 when neither chains on
RootEnds == <<END_OF_CHAIN, END_OF_CHAIN>>


(* The files the readers are run on *)

TextTypes == {TypeString, TypeUnicode, TypeBinary, TypeLong}
StoredAs(type, str) == IF type = TypeUnicode THEN Utf16(str) ELSE str

\* one Document under the root: class `class`, type `type`, holding Hello
OneDocFile(class, type) ==
    StdFile(<<"onedoc", class, type>>,
            <<RootSlot(1, 3),
              DocSlot(SubstgName(class, type), NO_INDEX, NO_INDEX, 0,
                      Len(StoredAs(type, Hello)))>>,
            <<>>, END_OF_CHAIN, <<END_OF_CHAIN>>,
            <<StoredAs(type, Hello)>>, <<>>, RootEnds)

\* the name the specification's example gives its Document, read as the
\* characters written (1), with 7 taken as the character 7 (2), and the
\* 10-character prefix constant directly followed by class and type (3)
ExampleName(reading) ==
    CASE reading = 1 -> PREFIX_DOCUMENT \o <<48, 92, 117>>
                          \o UpperHex4(ClassSubject) \o UpperHex4(TypeString)
      [] reading = 2 -> PREFIX_DOCUMENT \o <<48, 55>> \o UpperHex4(TypeString)
      [] reading = 3 -> PREFIX_DOCUMENT \o UpperHex4(ClassSubject)
                          \o UpperHex4(TypeString)

ExampleFile(reading) ==
    StdFile(<<"example", reading>>,
            <<RootSlot(1, 3),
              DocSlot(ExampleName(reading), NO_INDEX, NO_INDEX, 0, Len(Hello))>>,
            <<>>, END_OF_CHAIN, <<END_OF_CHAIN>>, <<Hello>>, <<>>, RootEnds)

\* an HTML body stored as bytes: a two-byte UTF-8 sequence (1), a byte that
\* is not UTF-8 (2)
HtmlBytes(k) == IF k = 1 THEN <<72, 195, 169>> ELSE <<72, 255>>
HtmlFile(k) ==
    StdFile(<<"html", k>>,
            <<RootSlot(1, 3),
              DocSlot(SubstgName(ClassBodyHTML, TypeBinary), NO_INDEX, NO_INDEX, 0,
                      Len(HtmlBytes(k)))>>,
            <<>>, END_OF_CHAIN, <<END_OF_CHAIN>>, <<HtmlBytes(k)>>, <<>>, RootEnds)

\* signatures that differ from the compound-file signature in one place
BadSignature(k) ==
    CASE k = 1 -> [GoodSignature EXCEPT ![1] = 209]
      [] k = 2 -> [GoodSignature EXCEPT ![8] = 224]
      [] k = 3 -> <<0, 0, 0, 0, 0, 0, 0, 0>>

BadSigFile(k, len) ==
    WithId(WithLen(WithSig(OneDocFile(ClassSubject, TypeString), BadSignature(k)), len),
           <<"badsig", k, len>>)

\* a well-signed file cut off after len bytes
TruncatedFile(type, len) ==
    WithId(WithLen(OneDocFile(ClassSubject, type), len), <<"truncated", type, len>>)

World == <<87, 111, 114, 108, 100>>

\* directories nested in one another: the container holds the child
\* directory, the child directory holds one string Document
ContainerName(kind) ==
    CASE kind = "plain" -> PlainDirName
      [] kind = "inner" -> SubstgName(ClassAttachData, TypeInnerMsg)
      [] kind = "attach" -> AttachName
      [] kind = "recip" -> RecipName

ChildDoc(kind, prev, next) ==
    DocSlot(SubstgName(IF kind = "attach" THEN ClassFileName ELSE ClassRecipName,
                       TypeString),
            prev, next, 0, Len(Hello))

NestFile(container, child) ==
    StdFile(<<"nest", container, child>>,
            IF container = "root"
            THEN <<RootSlot(1, 3),
                   DirSlot(ContainerName(child), NO_INDEX, NO_INDEX, 2),
                   ChildDoc(child, NO_INDEX, NO_INDEX)>>
            ELSE <<RootSlot(1, 3),
                   DirSlot(ContainerName(container), NO_INDEX, NO_INDEX, 2),
                   DirSlot(ContainerName(child), NO_INDEX, NO_INDEX, 3),
                   ChildDoc(child, NO_INDEX, NO_INDEX)>>,
            <<>>, END_OF_CHAIN, <<END_OF_CHAIN>>, <<Hello>>, <<>>, RootEnds)

\* two body Documents, visited first and second
BodyOrderFile(t1, t2) ==
    StdFile(<<"bodyorder", t1, t2>>,
            <<RootSlot(1, 3),
              DocSlot(SubstgName(ClassBody, t1), NO_INDEX, 2, 0,
                      Len(StoredAs(t1, Hello))),
              DocSlot(SubstgName(ClassBody, t2), NO_INDEX, NO_INDEX, 1,
                      Len(StoredAs(t2, World)))>>,
            <<>>, END_OF_CHAIN, <<END_OF_CHAIN, END_OF_CHAIN>>,
            <<StoredAs(t1, Hello), StoredAs(t2, World)>>, <<>>, RootEnds)

\* attachments.  Ten and Seventy are payloads; FileNameBytes a file name.
Ten == <<1, 2, 3, 4, 5, 6, 7, 8, 9, 10>>
Seventy == [i \in 1..70 |-> 150 + i]
FileNameBytes == <<97, 46, 98>>                 \* a.b

\* an attachment directory at property index `at` whose payload Document
\* (class 3701) sits at at + 1 and whose file name Document at at + 2
AttachSlots(at, next, type, start, size) ==
    <<DirSlot(AttachName, NO_INDEX, next, at + 1),
      DocSlot(SubstgName(ClassAttachData, type), NO_INDEX, at + 2, start, size),
      DocSlot(SubstgName(ClassFileName, TypeString), NO_INDEX, NO_INDEX, 3,
              Len(FileNameBytes))>>

\* a 512-byte block of a big stream: its number first, zeros after
MarkedBlock(n) == DataBlock(<<n>>)
\* the smallest payload the big-block store holds
BigSize == BIG_BLOCK_MIN_DOC_SIZE
\* the blocks of the big payload in chain order
BigChain(kind) ==
    IF kind = "big" THEN <<5, 6, 7, 8, 9, 10, 11, 12>>
    ELSE <<5, 6, 7, 8, 9, 10, 11, 13>>
\* BAT entries of blocks 5.. for that chain
BigBat(kind) ==
    IF kind = "big" THEN <<6, 7, 8, 9, 10, 11, 12, END_OF_CHAIN>>
    ELSE <<6, 7, 8, 9, 10, 11, 13, END_OF_CHAIN, END_OF_CHAIN>>
BigBlocks(kind) ==
    [i \in 1..(IF kind = "big" THEN 8 ELSE 9) |-> MarkedBlock(4 + i)]

AttachFile(kind) ==
    CASE kind = "small10" ->
           StdFile(<<"attach", kind>>,
                   <<RootSlot(1, 3)>> \o AttachSlots(1, NO_INDEX, TypeBinary, 0, Len(Ten)),
                   <<>>, END_OF_CHAIN,
                   <<END_OF_CHAIN, UNUSED_BLOCK, UNUSED_BLOCK, END_OF_CHAIN>>,
                   <<Ten, <<>>, <<>>, FileNameBytes>>, <<>>, RootEnds)
      [] kind = "small70" ->
           StdFile(<<"attach", kind>>,
                   <<RootSlot(1, 3)>>
                     \o AttachSlots(1, NO_INDEX, TypeBinary, 0, Len(Seventy)),
                   <<>>, END_OF_CHAIN,
                   <<2, UNUSED_BLOCK, END_OF_CHAIN, END_OF_CHAIN>>,
                   <<SubSeq(Seventy, 1, 64), <<>>, SubSeq(Seventy, 65, 70),
                     FileNameBytes>>, <<>>, RootEnds)
      [] kind = "smallcycle" ->
           \* the payload's small-block chain returns to its first block
           StdFile(<<"attach", kind>>,
                   <<RootSlot(1, 3)>>
                     \o AttachSlots(1, NO_INDEX, TypeBinary, 0, Len(Seventy)),
                   <<>>, END_OF_CHAIN,
                   <<2, UNUSED_BLOCK, 0, END_OF_CHAIN>>,
                   <<SubSeq(Seventy, 1, 64), <<>>, SubSeq(Seventy, 65, 70),
                     FileNameBytes>>, <<>>, RootEnds)
      [] kind = "smallunused" ->
           \* the payload's small-block chain runs into a free entry
           StdFile(<<"attach", kind>>,
                   <<RootSlot(1, 3)>>
                     \o AttachSlots(1, NO_INDEX, TypeBinary, 0, Len(Seventy)),
                   <<>>, END_OF_CHAIN,
                   <<2, UNUSED_BLOCK, UNUSED_BLOCK, END_OF_CHAIN>>,
                   <<SubSeq(Seventy, 1, 64), <<>>, SubSeq(Seventy, 65, 70),
                     FileNameBytes>>, <<>>, RootEnds)
      [] kind = "empty" ->
           StdFile(<<"attach", kind>>,
                   <<RootSlot(1, 3)>>
                     \o AttachSlots(1, NO_INDEX, TypeBinary, END_OF_CHAIN, 0),
                   <<>>, END_OF_CHAIN,
                   <<UNUSED_BLOCK, UNUSED_BLOCK, UNUSED_BLOCK, END_OF_CHAIN>>,
                   <<<<>>, <<>>, <<>>, FileNameBytes>>, <<>>, RootEnds)
      [] kind = "string" ->
           StdFile(<<"attach", kind>>,
                   <<RootSlot(1, 3)>> \o AttachSlots(1, NO_INDEX, TypeString, 0, Len(Ten)),
                   <<>>, END_OF_CHAIN,
                   <<END_OF_CHAIN, UNUSED_BLOCK, UNUSED_BLOCK, END_OF_CHAIN>>,
                   <<Ten, <<>>, <<>>, FileNameBytes>>, <<>>, RootEnds)
      [] kind = "two" ->
           StdFile(<<"attach", kind>>,
                   <<RootSlot(1, 3)>> \o AttachSlots(1, 4, TypeBinary, 0, Len(Ten)),
                   AttachSlots(4, NO_INDEX, TypeBinary, 1, Len(Hello)),
                   4, <<END_OF_CHAIN, END_OF_CHAIN, UNUSED_BLOCK, END_OF_CHAIN>>,
                   <<Ten, Hello, <<>>, FileNameBytes>>, <<>>, RootEnds)
      [] kind = "nodata" ->
           StdFile(<<"attach", kind>>,
                   <<RootSlot(1, 3),
                     DirSlot(AttachName, NO_INDEX, NO_INDEX, 2),
                     DocSlot(SubstgName(ClassFileName, TypeString), NO_INDEX, NO_INDEX,
                             3, Len(FileNameBytes))>>,
                   <<>>, END_OF_CHAIN,
                   <<UNUSED_BLOCK, UNUSED_BLOCK, UNUSED_BLOCK, END_OF_CHAIN>>,
                   <<<<>>, <<>>, <<>>, FileNameBytes>>, <<>>, RootEnds)
      [] kind = "twodata" ->
           StdFile(<<"attach", kind>>,
                   <<RootSlot(1, 3),
                     DirSlot(AttachName, NO_INDEX, NO_INDEX, 2),
                     DocSlot(SubstgName(ClassAttachData, TypeBinary), NO_INDEX, 3,
                             0, Len(Ten)),
                     DocSlot(SubstgName(ClassAttachData, TypeBinary), NO_INDEX, NO_INDEX,
                             1, Len(Hello))>>,
                   <<>>, END_OF_CHAIN,
                   <<END_OF_CHAIN, END_OF_CHAIN, UNUSED_BLOCK, END_OF_CHAIN>>,
                   <<Ten, Hello, <<>>, FileNameBytes>>, <<>>, RootEnds)
      [] kind \in {"big", "bigfrag"} ->
           StdFile(<<"attach", kind>>,
                   <<RootSlot(1, 3)>>
                     \o AttachSlots(1, NO_INDEX, TypeBinary, Head(BigChain(kind)), BigSize),
                   <<>>, END_OF_CHAIN,
                   <<UNUSED_BLOCK, UNUSED_BLOCK, UNUSED_BLOCK, END_OF_CHAIN>>,
                   <<<<>>, <<>>, <<>>, FileNameBytes>>,
                   BigBlocks(kind), RootEnds \o BigBat(kind))

\* a subject of BigSize characters in the big-block store, its blocks
\* chained as the payload of AttachFile(kind) is
BigFieldFile(kind) ==
    StdFile(<<"bigfield", kind>>,
            <<RootSlot(1, 3),
              DocSlot(SubstgName(ClassSubject, TypeString), NO_INDEX, NO_INDEX,
                      Head(BigChain(kind)), BigSize)>>,
            <<>>, END_OF_CHAIN, <<END_OF_CHAIN>>, <<>>,
            BigBlocks(kind), RootEnds \o BigBat(kind))
BigFieldFiles == {BigFieldFile(kind) : kind \in {"big", "bigfrag"}}

AttachKinds == {"small10", "small70", "empty", "string", "two", "nodata", "twodata",
                "big", "bigfrag", "smallcycle", "smallunused"}

\* property chains and trees, well formed and malformed
SubjectDoc(prev, next) ==
    DocSlot(SubstgName(ClassSubject, TypeString), prev, next, 0, Len(Hello))
UnknownSlot == [SubjectDoc(NO_INDEX, NO_INDEX) EXCEPT !.type = 7]

ChainShape(id, slotsA, slotsB, propNext, sbat, batMore) ==
    StdFile(id, slotsA, slotsB, propNext, sbat, <<Hello>>, <<>>, batMore)

ChainFile(kind) ==
    LET id == <<"chain", kind>>
        one == <<RootSlot(1, 3), SubjectDoc(NO_INDEX, NO_INDEX)>>
        far == <<RootSlot(4, 3)>>
    IN
    CASE kind = "twoblocks" ->
           \* the Document sits in the second property block
           ChainShape(id, far, <<SubjectDoc(NO_INDEX, NO_INDEX)>>, 4,
                      <<END_OF_CHAIN>>, RootEnds)
      [] kind = "selfcycle" ->
           \* the first property block is its own successor
           ChainShape(id, one, <<>>, 1, <<END_OF_CHAIN>>, RootEnds)
      [] kind = "cycle2" ->
           \* block 1 -> block 4 -> block 1
           ChainShape(id, far, <<SubjectDoc(NO_INDEX, NO_INDEX)>>, 4,
                      <<END_OF_CHAIN>>, <<END_OF_CHAIN, 1>>)
      [] kind = "unused" ->
           \* the chain runs into a free entry
           ChainShape(id, one, <<>>, UNUSED_BLOCK, <<END_OF_CHAIN>>, RootEnds)
      [] kind = "pastbat" ->
           \* the chain names a block the BAT has no entry for
           ChainShape(id, one, <<>>, 200, <<END_OF_CHAIN>>, RootEnds)
      [] kind = "slot0hole" ->
           \* slot 0 has an unrecognized type tag
           ChainShape(id, <<[RootSlot(1, 3) EXCEPT !.type = 0],
                            SubjectDoc(NO_INDEX, NO_INDEX)>>,
                      <<>>, END_OF_CHAIN, <<END_OF_CHAIN>>, RootEnds)
      [] kind = "holechild" ->
           \* the root's child is a slot with an unrecognized type tag
           ChainShape(id, <<RootSlot(1, 3), UnknownSlot>>,
                      <<>>, END_OF_CHAIN, <<END_OF_CHAIN>>, RootEnds)
      [] kind = "holesibling" ->
           \* a sibling pointer leads to a slot with an unrecognized type tag
           ChainShape(id, <<RootSlot(1, 3), SubjectDoc(2, NO_INDEX), UnknownSlot>>,
                      <<>>, END_OF_CHAIN, <<END_OF_CHAIN>>, RootEnds)
      [] kind = "holeunlinked" ->
           \* an unrecognized slot nothing points to, a Document after it
           ChainShape(id, <<RootSlot(2, 3), UnknownSlot, SubjectDoc(NO_INDEX, NO_INDEX)>>,
                      <<>>, END_OF_CHAIN, <<END_OF_CHAIN>>, RootEnds)
      [] kind = "outofrange" ->
           \* a sibling pointer past the end of the property list
           ChainShape(id, <<RootSlot(1, 3), SubjectDoc(NO_INDEX, 9)>>,
                      <<>>, END_OF_CHAIN, <<END_OF_CHAIN>>, RootEnds)
      [] kind = "nochild" ->
           \* the root has no child at all
           ChainShape(id, <<RootSlot(NO_INDEX, 3), SubjectDoc(NO_INDEX, NO_INDEX)>>,
                      <<>>, END_OF_CHAIN, <<END_OF_CHAIN>>, RootEnds)
      [] kind = "sbatunused" ->
           \* the Document's small-block chain runs into a free entry
           ChainShape(id, one, <<>>, END_OF_CHAIN, <<UNUSED_BLOCK>>, RootEnds)
      [] kind = "sbatcycle" ->
           ChainShape(id, one, <<>>, END_OF_CHAIN, <<0>>, RootEnds)
      [] kind = "sbatstartunused" ->
           \* the Document's start block is the free marker
           ChainShape(id, <<RootSlot(1, 3),
                            [SubjectDoc(NO_INDEX, NO_INDEX) EXCEPT !.start = UNUSED_BLOCK]>>,
                      <<>>, END_OF_CHAIN, <<END_OF_CHAIN>>, RootEnds)
      [] kind = "rootunused" ->
           \* the root stream's chain runs into a free entry before the
           \* small block is reached
           ChainShape(id, <<RootSlot(1, 3),
                            [SubjectDoc(NO_INDEX, NO_INDEX) EXCEPT !.start = 8]>>,
                      <<>>, END_OF_CHAIN,
                      <<END_OF_CHAIN, -1, -1, -1, -1, -1, -1, -1, END_OF_CHAIN>>,
                      <<UNUSED_BLOCK, END_OF_CHAIN>>)
      [] kind = "sibcycle" ->
           \* two siblings that name each other
           ChainShape(id, <<RootSlot(1, 3), SubjectDoc(NO_INDEX, 2), SubjectDoc(1, NO_INDEX)>>,
                      <<>>, END_OF_CHAIN, <<END_OF_CHAIN>>, RootEnds)
      [] kind = "sharedsibling" ->
           \* both sibling pointers of the root's child name the same slot
           ChainShape(id, <<RootSlot(1, 3), SubjectDoc(2, 2), SubjectDoc(NO_INDEX, NO_INDEX)>>,
                      <<>>, END_OF_CHAIN, <<END_OF_CHAIN>>, RootEnds)
      [] kind = "dircycle" ->
           \* a directory that is its own child
           ChainShape(id, <<RootSlot(1, 3), DirSlot(PlainDirName, NO_INDEX, NO_INDEX, 1)>>,
                      <<>>, END_OF_CHAIN, <<END_OF_CHAIN>>, RootEnds)

ChainKinds == {"twoblocks", "selfcycle", "cycle2", "unused", "pastbat", "slot0hole",
               "holechild", "holesibling", "holeunlinked", "outofrange", "nochild",
               "sbatunused", "sbatcycle", "sbatstartunused", "rootunused",
               "sibcycle", "dircycle", "sharedsibling"}

\* chains of SBAT blocks in the BAT: the SBAT starts at block 2, the BAT
\* gives block 2 the successor next2 and block 5 the successor next5, the
\* header's SBAT count is count
SbatLinks(shape) ==
    CASE shape = "end" -> <<END_OF_CHAIN, END_OF_CHAIN>>
      [] shape = "two" -> <<5, END_OF_CHAIN>>
      [] shape = "self" -> <<2, END_OF_CHAIN>>
      [] shape = "loop" -> <<5, 2>>
      [] shape = "free" -> <<UNUSED_BLOCK, END_OF_CHAIN>>
      [] shape = "past" -> <<200, END_OF_CHAIN>>

SbatChainFile(shape, count) ==
    [StdFile(<<"sbatchain", shape, count>>,
             <<RootSlot(1, 3), SubjectDoc(NO_INDEX, NO_INDEX)>>,
             <<>>, END_OF_CHAIN, <<END_OF_CHAIN>>, <<Hello>>,
             <<IntsBlock(<<END_OF_CHAIN>>)>>,
             <<END_OF_CHAIN, END_OF_CHAIN, SbatLinks(shape)[2]>>)
       EXCEPT !.sbatCount = count,
              !.blocks[1].ints[3] = SbatLinks(shape)[1]]

SbatShapes == {"end", "two", "self", "loop", "free", "past"}
SbatCounts == {-1, 0, 1, 2, 3}

\* one value stored in the small-block store in several ways
Hello6 == <<72, 233, 108, 108, 111, 33>>         \* Hello! with an e acute
SmallValue(size) == IF size = 6 THEN Hello6 ELSE Seventy
SmallTypes == {TypeString, TypeUnicode, TypeBinary}
SmallSizes == {6, 70}

\* the small blocks (in order of position in the root stream) and the SBAT
\* for each layout.  "first": one link at small block 0; "later": one link
\* at small block 2; "long": a chain of two or more links in ascending
\* positions; "back": the same chain laid out in descending positions
Pieces(bytes) ==
    IF Len(bytes) <= SMALL_BLOCK_SIZE THEN <<bytes, <<>>>>
    ELSE <<SubSeq(bytes, 1, SMALL_BLOCK_SIZE),
           SubSeq(bytes, SMALL_BLOCK_SIZE + 1, Len(bytes))>>

SmallLayouts(size) == IF size <= SMALL_BLOCK_SIZE THEN {"first", "later", "long", "back"}
                      ELSE {"long", "back"}

SmallStoreFile(type, size, layout) ==
    LET text == IF type = TypeUnicode THEN SubSeq(SmallValue(size), 1, size \div 2)
                ELSE SmallValue(size)
        bytes == StoredAs(type, text)
        ps == Pieces(bytes)
        doc(start) == DocSlot(SubstgName(ClassSubject, type), NO_INDEX, NO_INDEX,
                              start, Len(bytes))
        id == <<"store", type, size, layout>>
    IN
    CASE layout = "first" ->
           StdFile(id, <<RootSlot(1, 3), doc(0)>>, <<>>, END_OF_CHAIN,
                   <<END_OF_CHAIN>>, <<bytes>>, <<>>, RootEnds)
      [] layout = "later" ->
           StdFile(id, <<RootSlot(1, 3), doc(2)>>, <<>>, END_OF_CHAIN,
                   <<UNUSED_BLOCK, UNUSED_BLOCK, END_OF_CHAIN>>,
                   <<<<>>, <<>>, bytes>>, <<>>, RootEnds)
      [] layout = "long" ->
           StdFile(id, <<RootSlot(1, 3), doc(1)>>, <<>>, END_OF_CHAIN,
                   <<UNUSED_BLOCK, 3, UNUSED_BLOCK, END_OF_CHAIN>>,
                   <<<<>>, ps[1], <<>>, ps[2]>>, <<>>, RootEnds)
      [] layout = "back" ->
           StdFile(id, <<RootSlot(1, 3), doc(3)>>, <<>>, END_OF_CHAIN,
                   <<UNUSED_BLOCK, END_OF_CHAIN, UNUSED_BLOCK, 1>>,
                   <<<<>>, ps[2], <<>>, ps[1]>>, <<>>, RootEnds)

\* a BAT of HeaderBats + 1 sectors: the header names block 0 for each of
\* its entries, the XBAT block 5 names block 6 for the one after them, and
\* block 6 ends the chain of the first block it governs; the SBAT starts
\* at block start and the header's SBAT count is count
HeaderBats == (S_BIG_BLOCK_SIZE - BAT_START_OFFSET) \div 4
FirstBlockPastHeaderBats == HeaderBats * (S_BIG_BLOCK_SIZE \div 4)
XbatFile(start, count) ==
    [StdFile(<<"xbat", start, count>>, <<RootSlot(NO_INDEX, 3)>>, <<>>,
             END_OF_CHAIN, <<END_OF_CHAIN>>, <<>>,
             <<IntsBlock(<<6>>), IntsBlock(<<END_OF_CHAIN>>)>>,
             <<END_OF_CHAIN, END_OF_CHAIN, END_OF_CHAIN, END_OF_CHAIN, END_OF_CHAIN>>)
       EXCEPT !.batCount = HeaderBats + 1,
              !.hbat = [i \in 1..HeaderBats |-> 0],
              !.xbatStart = 5, !.xbatCount = 1,
              !.sbatStart = start, !.sbatCount = count]
XbatStarts == {2, FirstBlockPastHeaderBats}

\* XBAT chains: blocks 5 and 7 are XBAT blocks, block 6 a BAT sector
XBlockLength == (S_BIG_BLOCK_SIZE \div 4) - 1
XbatBlock(entries, next) ==
    IntsBlock([j \in 1..(XBlockLength + 1) |->
                 IF j <= Len(entries) THEN entries[j]
                 ELSE IF j = XBlockLength + 1 THEN next ELSE UNUSED_BLOCK])
FullXbat == [j \in 1..XBlockLength |-> 6]
XbatChainFile(kind) ==
    LET Shaped(bats, xbats, first, second) ==
            [StdFile(<<"xbatchain", kind>>, <<RootSlot(NO_INDEX, 3)>>, <<>>,
                     END_OF_CHAIN, <<END_OF_CHAIN>>, <<>>,
                     <<first, IntsBlock(<<END_OF_CHAIN>>), second>>,
                     <<END_OF_CHAIN, END_OF_CHAIN, END_OF_CHAIN, END_OF_CHAIN,
                       END_OF_CHAIN, END_OF_CHAIN>>)
               EXCEPT !.batCount = bats,
                      !.hbat = [i \in 1..Min(bats, HeaderBats) |-> 0],
                      !.xbatStart = 5, !.xbatCount = xbats]
    IN
    CASE kind = "unused" ->
           \* a free entry before a further entry of the same block
           Shaped(HeaderBats + 3, 1,
                  XbatBlock(<<6, UNUSED_BLOCK, 6>>, END_OF_CHAIN), IntsBlock(<<>>))
      [] kind = "end" ->
           \* an end-of-chain entry before a further entry of the same block
           Shaped(HeaderBats + 3, 1,
                  XbatBlock(<<6, 6, END_OF_CHAIN, 6>>, END_OF_CHAIN), IntsBlock(<<>>))
      [] kind = "first" ->
           \* the sentinel is the first entry
           Shaped(HeaderBats + 2, 1,
                  XbatBlock(<<UNUSED_BLOCK, 6>>, END_OF_CHAIN), IntsBlock(<<>>))
      [] kind = "fewer" ->
           \* more entries in the block than batCount leaves to recover
           Shaped(HeaderBats + 2, 1,
                  XbatBlock(<<6, 6, 6, 6>>, END_OF_CHAIN), IntsBlock(<<>>))
      [] kind = "none" ->
           \* an XBAT block although the header holds the whole BAT
           Shaped(1, 1, XbatBlock(<<6, 6>>, END_OF_CHAIN), IntsBlock(<<>>))
      [] kind = "two" ->
           \* two XBAT blocks, the first cut short by a sentinel
           Shaped(HeaderBats + XBlockLength + 2, 2,
                  XbatBlock(<<6, 6, UNUSED_BLOCK, 6>>, 7),
                  XbatBlock(<<6, 6, 6>>, END_OF_CHAIN))
      [] kind = "full" ->
           \* two XBAT blocks, the first one full
           Shaped(HeaderBats + XBlockLength + 2, 2,
                  XbatBlock(FullXbat, 7),
                  XbatBlock(<<6, 6, 6>>, END_OF_CHAIN))
      [] kind = "unvisited" ->
           \* a second XBAT block that xbatCount does not reach
           Shaped(HeaderBats + XBlockLength + 2, 1,
                  XbatBlock(FullXbat, 7),
                  XbatBlock(<<6, 6, 6>>, END_OF_CHAIN))
XbatChainKinds == {"unused", "end", "first", "fewer", "none", "two", "full", "unvisited"}
XbatFiles ==
    {XbatFile(start, count) : start \in XbatStarts, count \in {1, 2}}
       \cup {XbatChainFile(kind) : kind \in XbatChainKinds}

OneDocFiles ==
    {OneDocFile(class, type) :
        class \in {ClassSubject, ClassBody, ClassBodyHTML}, type \in TextTypes}
ExampleFiles == {ExampleFile(reading) : reading \in 1..3}
HtmlFiles == {HtmlFile(k) : k \in 1..2}
BadSigLens == {0, 7, 8, 3072}
BadSigFiles == {BadSigFile(k, len) : k \in 1..3, len \in BadSigLens}
TruncatedLens == {8, 40, 512, 1124, 2051}
TruncatedFiles ==
    {TruncatedFile(type, len) : type \in {TypeString, TypeUnicode}, len \in TruncatedLens}
Containers == {"root", "plain", "inner", "attach", "recip"}
NestFiles == {NestFile(container, child) :
                 container \in Containers, child \in {"attach", "recip", "inner"}}
BodyOrderFiles == {BodyOrderFile(t1, t2) : t1 \in TextTypes, t2 \in TextTypes}
AttachFiles == {AttachFile(kind) : kind \in AttachKinds}
ChainFiles == {ChainFile(kind) : kind \in ChainKinds}
SbatChainFiles ==
    {SbatChainFile(shape, count) : shape \in SbatShapes, count \in SbatCounts}
SmallStoreFiles ==
    UNION {{SmallStoreFile(type, size, layout) : layout \in SmallLayouts(size)} :
             <<type, size>> \in SmallTypes \X SmallSizes}

Files ==
    OneDocFiles \cup ExampleFiles \cup HtmlFiles \cup BadSigFiles \cup TruncatedFiles \cup NestFiles
      \cup BodyOrderFiles \cup AttachFiles \cup ChainFiles \cup SmallStoreFiles
      \cup SbatChainFiles \cup XbatFiles \cup BigFieldFiles

---------------------------------------------------------------------------
(* The state machine *)

MaxParseRuns == 2      \* times one reader may enter parseMsgData
MaxAttach == 1         \* attachment indices 0..MaxAttach are asked for

\* the plugin before onload: the stored setting, no search leaf, the id the
\* table gives its next row
NoEvent == [kind |-> "none", path |-> "", st |-> "ok"]
NotLoaded(searchEnabled, nextId) ==
    [loaded |-> FALSE, searchEnabled |-> searchEnabled, leaves |-> 0,
     nextId |-> nextId, last |-> NoEvent]

\* the search view as it is mounted: searchKey undefined, the effect has
\* set searchResults to null, nothing queued
NoSearch == [searchKey |-> <<>>, searchResults |-> [set |-> FALSE, found |-> {}],
             promiseQueue |-> <<>>, inFlight |-> <<>>, started |-> <<>>,
             settled |-> {}, shifted |-> <<>>, pushed |-> <<>>]
\* no handler under way
NoHandlers == <<>>

\* no operation made on the stream yet
NoCall == [op |-> "none", arg |-> <<>>, from |-> NewDataStream(0), st |-> "ok",
           ret |-> <<>>]

Init ==
    /\ buffer \in {ArrayBuffer(f) : f \in Files}
    /\ ds = [r \in Readers |-> NewDataStream(buffer.len)]
    /\ fileData = [r \in Readers |-> NoFileData]
    /\ result = [r \in Readers |-> NoResult]
    /\ parseRuns = [r \in Readers |-> 0]
    /\ hung = FALSE
    /\ alone = [r \in Readers |->
                 [ds |-> NewDataStream(buffer.len), fileData |-> NoFileData,
                  result |-> NoResult]]
    /\ stream = NewDataStream(buffer.len)
    /\ call = NoCall
    /\ vault = {}
    /\ db = {}
    /\ plugin = NotLoaded(TRUE, 1)
    /\ search = NoSearch
    /\ handlers = NoHandlers

\* a reader whose stream and memo are those of the first reader made
sharedDs(r) == ds[1]
sharedFileData(r) == fileData[1]

\* this.ds and this.fileData of reader r: own properties of the instance
thisDs(r) == ds[r]
thisFileData(r) == fileData[r]

\* the same call made on the reader that is alone
AloneAfter(r, o, arg) ==
    [alone EXCEPT ![r] = [ds |-> DsOf(o.c), fileData |-> o.fileData,
                          result |-> Called(o.result, arg)]]
AloneAttachAfter(r, o, arg) ==
    [alone EXCEPT ![r] = [ds |-> DsOf(o.c), fileData |-> alone[r].fileData,
                          result |-> Called(o.result, arg)]]

\* reader r's getFileData() is called
GetFileData(r) ==
    /\ ~hung
    /\ fileData[r].set \/ parseRuns[r] < MaxParseRuns
    /\ \E a \in {getFileData(alone[r].ds, alone[r].fileData)} :
         alone' = AloneAfter(r, a, NoArg)
    /\ \E o \in {getFileData(thisDs(r), thisFileData(r))} :
         /\ ds' = [ds EXCEPT ![r] = DsOf(o.c)]
         /\ fileData' = [fileData EXCEPT ![r] = o.fileData]
         /\ result' = [result EXCEPT ![r] = Called(o.result, NoArg)]
         /\ parseRuns' = [parseRuns EXCEPT ![r] = @ + (IF o.parsed THEN 1 ELSE 0)]
         /\ hung' = (o.result.kind = "hang")
         /\ buffer' = CallerBuffer(o.c)
    /\ UNCHANGED <<stream, call, vault, db, plugin, search, handlers>>

\* reader r's getAttachment(attach) is called with an index
GetAttachmentByIndex(r, attach) ==
    /\ ~hung
    /\ \E a \in {getAttachment(alone[r].ds, alone[r].fileData, attach, TRUE)} :
         alone' = AloneAttachAfter(r, a, <<"index", attach>>)
    /\ \E o \in {getAttachment(thisDs(r), thisFileData(r), attach, TRUE)} :
         /\ ds' = [ds EXCEPT ![r] = DsOf(o.c)]
         /\ result' = [result EXCEPT ![r] = Called(o.result, <<"index", attach>>)]
         /\ hung' = (o.result.kind = "hang")
         /\ buffer' = CallerBuffer(o.c)
    /\ UNCHANGED <<fileData, parseRuns, stream, call, vault, db, plugin,
                   search, handlers>>

\* reader r's getAttachment(attach) is called with a record that an earlier
\* getFileData returned
GetAttachmentByRecord(r, i) ==
    /\ ~hung
    /\ fileData[r].set
    /\ i \in 1..Len(fileData[r].msg.fieldsData["attachments"])
    /\ \E a \in {getAttachment(alone[r].ds, alone[r].fileData,
                               fileData[r].msg.fieldsData["attachments"][i], FALSE)} :
         alone' = AloneAttachAfter(r, a, <<"record", i - 1>>)
    /\ \E o \in {getAttachment(thisDs(r), thisFileData(r),
                               fileData[r].msg.fieldsData["attachments"][i], FALSE)} :
         /\ ds' = [ds EXCEPT ![r] = DsOf(o.c)]
         /\ result' = [result EXCEPT ![r] = Called(o.result, <<"record", i - 1>>)]
         /\ hung' = (o.result.kind = "hang")
         /\ buffer' = CallerBuffer(o.c)
    /\ UNCHANGED <<fileData, parseRuns, stream, call, vault, db, plugin,
                   search, handlers>>

Next ==
    \/ \E r \in Readers : GetFileData(r)
    \/ \E r \in Readers, attach \in 0..MaxAttach : GetAttachmentByIndex(r, attach)
    \/ \E r \in Readers, i \in 1..(MaxAttach + 1) : GetAttachmentByRecord(r, i)

Spec == Init /\ [][Next]_vars

---------------------------------------------------------------------------
(* The DataStream used directly: one stream over a short buffer, any of    *)
(* its read operations next                                                *)

MaxLen == 3            \* the buffer has 0..MaxLen bytes
MaxOffset == 4         \* no read is started beyond this position or length

Alphabet == {0, 65}
RECURSIVE ByteSeqs(_)
ByteSeqs(n) ==
    IF n = 0 THEN {<<>>}
    ELSE ByteSeqs(n - 1)
           \cup {Append(b, x) : b \in {q \in ByteSeqs(n - 1) : Len(q) = n - 1},
                                x \in Alphabet}

\* new ArrayBuffer of the given bytes
ByteBuffer(bytes) == [id |-> <<"bytes">>, len |-> Len(bytes), bytes |-> bytes]

Lengths == 0..(MaxLen + 1)
ArrayLengths == {0, 1, 2}
NoLength == NaN
Overrides == {NoLength} \cup {N(n) : n \in Lengths}
TypeOverrides == {NoLength, N(1), N(MaxLen + 1)}
SeekTargets ==
    {NaN, PosInfinity, NegInfinity} \cup {N(p) : p \in (0 - 1)..(MaxLen + 2)}
TypeNames == {"uint8", "int8", "int16", "int32", "cstring", "string", "u16string",
              "utf16string"}
StructFields == {<<"uint8", NoLength>>, <<"cstring", N(2)>>, <<"utf16string", N(1)>>}
StructDefinitions ==
    {<<f>> : f \in StructFields} \cup {<<f, g>> : f \in StructFields, g \in StructFields}

InitStream ==
    /\ buffer \in {ByteBuffer(bytes) : bytes \in ByteSeqs(MaxLen)}
    /\ stream = NewDataStream(buffer.len)
    /\ call = NoCall
    /\ vault = {}
    /\ db = {}
    /\ plugin = NotLoaded(TRUE, 1)
    /\ search = NoSearch
    /\ handlers = NoHandlers
    /\ ds = [r \in Readers |-> NewDataStream(buffer.len)]
    /\ fileData = [r \in Readers |-> NoFileData]
    /\ result = [r \in Readers |-> NoResult]
    /\ parseRuns = [r \in Readers |-> 0]
    /\ hung = FALSE
    /\ alone = [r \in Readers |->
                 [ds |-> NewDataStream(buffer.len), fileData |-> NoFileData,
                  result |-> NoResult]]

\* the operation op(arg) took the stream to o
Operated(op, arg, o) ==
    /\ stream' = DsOf(o)
    /\ call' = [op |-> op, arg |-> arg, from |-> stream, st |-> o.st,
                ret |-> IF Ok(o) THEN o.ret ELSE <<>>]
    /\ buffer' = CallerBuffer(o)
    /\ UNCHANGED <<readerVars, pluginVars, viewVars>>

Within == stream.pos <= MaxOffset /\ stream.byteLength <= MaxOffset

Seek(p) ==
    \E o \in {seek(Ctx(stream), p)} : Operated("seek", p, [o EXCEPT !.ret = <<>>])

ReadUint8 ==
    Within /\ \E o \in {readUint8(Ctx(stream))} : Operated("readUint8", NoLength, o)
ReadInt8 ==
    Within /\ \E o \in {readInt8(Ctx(stream))} : Operated("readInt8", NoLength, o)
ReadInt16 ==
    Within /\ \E o \in {readInt16(Ctx(stream))} : Operated("readInt16", NoLength, o)
ReadInt32 ==
    Within /\ \E o \in {readInt32(Ctx(stream))} : Operated("readInt32", NoLength, o)

ReadInt8Array(n) ==
    Within /\ \E o \in {readInt8Array(Ctx(stream), n)} :
                Operated("readInt8Array", N(n), o)
ReadUint8Array(n) ==
    Within /\ \E o \in {readUint8Array(Ctx(stream), n)} :
                Operated("readUint8Array", N(n), o)
ReadUint16Array(n) ==
    Within /\ \E o \in {readUint16ArrayOfBytes(Ctx(stream), 2 * n)} :
                Operated("readUint16Array", N(n), o)
ReadInt32Array(n) ==
    Within /\ \E o \in {readInt32ArrayAt(Ctx(stream), n, N(0))} :
                Operated("readInt32Array", N(n), o)

\* readString(length), and readString() for the rest of the stream
ReadString(length) ==
    Within /\ \E o \in {readString(Ctx(stream),
                                    IF IsNum(length) THEN Val(length)
                                    ELSE stream.byteLength - stream.pos)} :
                Operated("readString", length, o)
ReadUCS2String(n) ==
    Within /\ \E o \in {readUCS2StringOfBytes(Ctx(stream), 2 * n)} :
                Operated("readUCS2String", N(n), o)
ReadCString(length) ==
    Within /\ \E o \in {readCString(Ctx(stream), length)} :
                Operated("readCString", length, o)

ReadType(t, lengthOverride) ==
    /\ Within
    /\ t = "u16string" => IsNum(lengthOverride)
    /\ \E o \in {readType(Ctx(stream), t, lengthOverride)} :
         Operated("readType", <<t, lengthOverride>>, o)
ReadStruct(structDefinition) ==
    Within /\ \E o \in {readStruct(Ctx(stream), structDefinition)} :
                Operated("readStruct", structDefinition, o)

NextStream ==
    \/ \E p \in SeekTargets : Seek(p)
    \/ ReadUint8
    \/ ReadInt8
    \/ ReadInt16
    \/ ReadInt32
    \/ \E n \in ArrayLengths : ReadInt8Array(n)
    \/ \E n \in ArrayLengths : ReadUint8Array(n)
    \/ \E n \in ArrayLengths : ReadUint16Array(n)
    \/ \E n \in ArrayLengths : ReadInt32Array(n)
    \/ \E length \in Overrides : ReadString(length)
    \/ \E n \in ArrayLengths : ReadUCS2String(n)
    \/ \E length \in Overrides : ReadCString(length)
    \/ \E t \in TypeNames, lengthOverride \in TypeOverrides :
          ReadType(t, lengthOverride)
    \/ \E structDefinition \in StructDefinitions : ReadStruct(structDefinition)

SpecStream == InitStream /\ [][NextStream]_vars

---------------------------------------------------------------------------
(* The plugin: the vault, the index table and the search leaf              *)

MaxId == 5             \* no row is added once the table's next id is past this

\* MsgHandlerPlugin.acceptedExtensions
acceptedExtensions == {"msg", "eml"}

TFile(path, extension) == [path |-> path, extension |-> extension]
MsgFile == TFile("a.msg", "msg")
EmlFile == TFile("c.eml", "eml")
BrokenEml == TFile("x.eml", "eml")       \* text that readEml answers with err
NoteFile == TFile("n.md", "md")
Files4 == {MsgFile, EmlFile, BrokenEml, NoteFile}

Row(id, filePath) == [id |-> id, filePath |-> filePath]

\* getAllDBMessageContents, getDBMessageContentsByPath
getAllDBMessageContents(table) == table
getDBMessageContentsByPath(table, filePath) == {row \in table : row.filePath = filePath}

\* a table t is [rows, nextId, st]; st is "ok" or the error that ended the
\* handler
Table(rows, nextId) == [rows |-> rows, nextId |-> nextId, st |-> "ok"]
Rejected(t, e) == [t EXCEPT !.st = e]

\* getMsgContent(params): params.msgFile is undefined when the caller gave
\* no msgFile property
getMsgContent(params) ==
    IF "msgFile" \notin DOMAIN params THEN "TypeError"
    ELSE IF params["msgFile"].extension = "msg" THEN "ok"
    ELSE IF params["msgFile"].extension = "eml"
    THEN (IF params["msgFile"] = BrokenEml THEN "rejected" ELSE "ok")
    ELSE "undefined"

\* createDBMessageContent: Table.add with ++id and the unique index &filePath
createDBMessageContent(t, msgContent, file) ==
    IF msgContent = "undefined" THEN Rejected(t, "TypeError")
    ELSE IF getDBMessageContentsByPath(t.rows, file.path) # {}
    THEN Rejected(t, "ConstraintError")
    ELSE [t EXCEPT !.rows = t.rows \cup {Row(t.nextId, file.path)},
                   !.nextId = t.nextId + 1]

\* deleteDBMessageContentById: nothing for a falsy id
deleteDBMessageContentById(rows, id) ==
    IF id # 0 THEN {row \in rows : row.id # id} ELSE rows

\* the second loop of syncDatabaseWithVaultFiles, over the msg files that
\* the rows read at the start have no row for
RECURSIVE syncCreateLoop(_, _)
syncCreateLoop(t, todo) ==
    LET Created(msgFile, msgContent) ==
            IF msgContent \in {"TypeError", "rejected"} THEN Rejected(t, msgContent)
            ELSE syncCreateLoop(createDBMessageContent(t, msgContent, msgFile),
                                todo \ {msgFile})
        Visit(msgFile) ==
            Created(msgFile, getMsgContent([plugin |-> "this", msgPath |-> msgFile.path]))
    IN  IF t.st # "ok" \/ todo = {} THEN t
        ELSE Visit(CHOOSE f \in todo : TRUE)

\* syncDatabaseWithVaultFiles
syncDatabaseWithVaultFiles(files, t) ==
    LET msgFiles == {f \in files : f.extension = "msg"}
        dbMsgContents == getAllDBMessageContents(t.rows)
        kept == {row \in t.rows : \E f \in msgFiles : f.path = row.filePath}
    IN  syncCreateLoop([t EXCEPT !.rows = kept],
                       {f \in msgFiles :
                          ~\E c \in dbMsgContents : c.filePath = f.path})

\* handleFileCreate
handleFileCreate(file, t) ==
    LET Created(msgContent) ==
            IF msgContent \in {"TypeError", "rejected"} THEN Rejected(t, msgContent)
            ELSE createDBMessageContent(t, msgContent, file)
    IN  IF file.extension \in acceptedExtensions
           /\ getDBMessageContentsByPath(t.rows, file.path) = {}
        THEN Created(getMsgContent([plugin |-> "this", msgFile |-> file]))
        ELSE t

\* handleFileDelete
handleFileDelete(file, t) ==
    IF file.extension \in acceptedExtensions
    THEN [t EXCEPT !.rows = {row \in t.rows : row.filePath # file.path \/ row.id = 0}]
    ELSE t

\* openMsgHandlerSearchLeaf, detachMsgHandlerSearchLeaf: the number of
\* leaves of the search view type afterwards
openMsgHandlerSearchLeaf(leaves) == IF leaves = 0 THEN 1 ELSE leaves
detachMsgHandlerSearchLeaf(leaves) == 0

\* the tables an earlier session can have left
StoredTables ==
    {Table({}, 1), Table({Row(1, MsgFile.path)}, 2), Table({Row(1, EmlFile.path)}, 2),
     Table({Row(1, MsgFile.path), Row(2, EmlFile.path)}, 3),
     Table({Row(1, EmlFile.path), Row(2, MsgFile.path)}, 3),
     Table({Row(2, EmlFile.path)}, 3)}

InitPlugin ==
    /\ vault \in SUBSET Files4
    /\ \E t \in StoredTables, searchEnabled \in BOOLEAN :
         /\ db = t.rows
         /\ plugin = NotLoaded(searchEnabled, t.nextId)
    /\ search = NoSearch
    /\ handlers = NoHandlers
    /\ buffer = ByteBuffer(<<>>)
    /\ stream = NewDataStream(buffer.len)
    /\ call = NoCall
    /\ ds = [r \in Readers |-> NewDataStream(buffer.len)]
    /\ fileData = [r \in Readers |-> NoFileData]
    /\ result = [r \in Readers |-> NoResult]
    /\ parseRuns = [r \in Readers |-> 0]
    /\ hung = FALSE
    /\ alone = [r \in Readers |->
                 [ds |-> NewDataStream(buffer.len), fileData |-> NoFileData,
                  result |-> NoResult]]

Event(kind, path, st) == [kind |-> kind, path |-> path, st |-> st]

\* onload and the onLayoutReady callback: the sync runs to its end and the
\* search leaf is opened
OnLoad ==
    /\ ~plugin.loaded
    /\ \E t \in {syncDatabaseWithVaultFiles(vault, Table(db, plugin.nextId))} :
         /\ db' = t.rows
         /\ plugin' = [plugin EXCEPT
                         !.loaded = TRUE,
                         !.nextId = t.nextId,
                         !.leaves = openMsgHandlerSearchLeaf(plugin.leaves),
                         !.last = Event("load", "", t.st)]
    /\ UNCHANGED <<vault, buffer, readerVars, streamVars, viewVars>>

\* a file appears in the vault and the create handler runs
VaultCreate(file) ==
    /\ plugin.loaded
    /\ plugin.nextId <= MaxId
    /\ file \notin vault
    /\ vault' = vault \cup {file}
    /\ \E t \in {handleFileCreate(file, Table(db, plugin.nextId))} :
         /\ db' = t.rows
         /\ plugin' = [plugin EXCEPT !.nextId = t.nextId,
                                     !.last = Event("create", file.path, t.st)]
    /\ UNCHANGED <<buffer, readerVars, streamVars, viewVars>>

\* a file leaves the vault and the delete handler runs
VaultDelete(file) ==
    /\ plugin.loaded
    /\ file \in vault
    /\ vault' = vault \ {file}
    /\ \E t \in {handleFileDelete(file, Table(db, plugin.nextId))} :
         /\ db' = t.rows
         /\ plugin' = [plugin EXCEPT !.last = Event("delete", file.path, t.st)]
    /\ UNCHANGED <<buffer, readerVars, streamVars, viewVars>>

\* the toggle 'MSG Search View' of the settings tab is switched
ToggleSearchView(value) ==
    /\ plugin.loaded
    /\ value # plugin.searchEnabled
    /\ plugin' = [plugin EXCEPT
                    !.searchEnabled = value,
                    !.leaves = IF value THEN openMsgHandlerSearchLeaf(plugin.leaves)
                               ELSE detachMsgHandlerSearchLeaf(plugin.leaves),
                    !.last = Event("toggle", "", "ok")]
    /\ UNCHANGED <<vault, db, buffer, readerVars, streamVars, viewVars>>

\* the command 'Reveal Search Leaf' or the ribbon icon
RevealSearchLeaf ==
    /\ plugin.loaded
    /\ plugin' = [plugin EXCEPT !.leaves = openMsgHandlerSearchLeaf(plugin.leaves),
                                !.last = Event("reveal", "", "ok")]
    /\ UNCHANGED <<vault, db, buffer, readerVars, streamVars, viewVars>>

NextPlugin ==
    \/ OnLoad
    \/ \E file \in Files4 : VaultCreate(file)
    \/ \E file \in Files4 : VaultDelete(file)
    \/ \E value \in BOOLEAN : ToggleSearchView(value)
    \/ RevealSearchLeaf

SpecPlugin == InitPlugin /\ [][NextPlugin]_vars

---------------------------------------------------------------------------
(* The search view: SearchViewComponent                                    *)
(* search is [searchKey, searchResults, promiseQueue, pushed, inFlight,    *)
(* started, settled, shifted]:                                             *)
(*   searchKey     the state searchKey; <<>> is the empty key              *)
(*   searchResults the state searchResults: null (set = FALSE) or a list   *)
(*   promiseQueue  promiseQueueRef.current: the queued runSearch closures, *)
(*                 each named by its place in pushed                       *)
(*   pushed        the key each queued closure has captured                *)
(*   inFlight      the runSearch calls that await the database, each made  *)
(*                 by a runPromiseQueue loop that awaits it                *)
(*   started       the closures in the order their calls were made         *)
(*   settled       the closures of which a call has finished               *)
(*   shifted       the closures shift() removed, each with whether a call  *)
(*                 of it had finished by then                              *)

MaxSearches == 3       \* non-empty keys entered into the search box

\* keys and indexed subjects, as UTF-16 code units
KeyA == <<97>>
KeyAb == <<97, 98>>
KeyB == <<98>>
EmptyKey == <<>>
SearchKeys == {EmptyKey, KeyA, KeyAb, KeyB}
IndexedSubjects == {<<65, 98>>, <<97>>, <<98>>}

includes(target, key) ==
    \E i \in 0..(Len(target) - Len(key)) : SubSeq(target, i + 1, i + Len(key)) = key

\* searchMsgFilesWithKey: the indexed messages that hold the key, letter
\* case aside
searchMsgFilesWithKey(key) ==
    {subject \in IndexedSubjects : includes(toLowerCase(subject), toLowerCase(key))}

Results(found) == [set |-> TRUE, found |-> found]
NullResults == [set |-> FALSE, found |-> {}]

\* one pass of the while loop of runPromiseQueue up to its await: the
\* closure at the head of the queue is called
runPromiseQueue(s) ==
    IF Len(s.promiseQueue) > 0
    THEN [s EXCEPT !.inFlight = Append(@, Head(s.promiseQueue)),
                   !.started = Append(@, Head(s.promiseQueue))]
    ELSE s

\* the finally clause after the awaited call: promiseQueueRef.current.shift()
shiftQueue(s) ==
    IF Len(s.promiseQueue) > 0
    THEN [s EXCEPT !.promiseQueue = Tail(@),
                   !.shifted = Append(@, [fn |-> Head(s.promiseQueue),
                                          ran |-> Head(s.promiseQueue) \in s.settled])]
    ELSE s

\* the effect on [searchKey]
searchKeyEffect(s) ==
    IF s.searchKey = EmptyKey
    THEN [s EXCEPT !.searchResults = NullResults]
    ELSE runPromiseQueue([s EXCEPT !.promiseQueue = Append(@, Len(s.pushed) + 1),
                                   !.pushed = Append(@, s.searchKey)])

\* the rest of runSearch once the database has answered, and the loop of
\* runPromiseQueue that awaited it
runSearch(s, i) ==
    runPromiseQueue(shiftQueue(
        [s EXCEPT !.searchResults = Results(searchMsgFilesWithKey(s.pushed[s.inFlight[i]])),
                  !.settled = @ \cup {s.inFlight[i]},
                  !.inFlight = SubSeq(@, 1, i - 1) \o SubSeq(@, i + 1, Len(@))]))

InitSearch ==
    /\ search = NoSearch
    /\ handlers = NoHandlers
    /\ vault = {}
    /\ db = {}
    /\ plugin = NotLoaded(TRUE, 1)
    /\ buffer = ByteBuffer(<<>>)
    /\ stream = NewDataStream(buffer.len)
    /\ call = NoCall
    /\ ds = [r \in Readers |-> NewDataStream(buffer.len)]
    /\ fileData = [r \in Readers |-> NoFileData]
    /\ result = [r \in Readers |-> NoResult]
    /\ parseRuns = [r \in Readers |-> 0]
    /\ hung = FALSE
    /\ alone = [r \in Readers |->
                 [ds |-> NewDataStream(buffer.len), fileData |-> NoFileData,
                  result |-> NoResult]]

\* the user changes the text of the search box: handleInputChange, the
\* render and the effect on [searchKey]
HandleInputChange(newSearchKey) ==
    /\ newSearchKey # search.searchKey
    /\ newSearchKey # EmptyKey => Len(search.pushed) < MaxSearches
    /\ search' = searchKeyEffect([search EXCEPT !.searchKey = newSearchKey])
    /\ UNCHANGED <<handlers, buffer, readerVars, streamVars, pluginVars>>

\* the database answers the i-th of the calls in flight
SearchSettles(i) ==
    /\ i \in 1..Len(search.inFlight)
    /\ search' = runSearch(search, i)
    /\ UNCHANGED <<handlers, buffer, readerVars, streamVars, pluginVars>>

NextSearch ==
    \/ \E newSearchKey \in SearchKeys : HandleInputChange(newSearchKey)
    \/ \E i \in 1..(2 * MaxSearches) : SearchSettles(i)

SpecSearch == InitSearch /\ [][NextSearch]_vars

---------------------------------------------------------------------------
(* The vault listeners and the start-up sync as they interleave            *)
(* handlers is the sequence of the calls made so far, each a task          *)
(* [kind, file, pc, found, msgFiles, left, content, st]:                   *)
(*   kind      "create", "delete" or "sync"                                *)
(*   pc        the await the call is suspended at, or "done"               *)
(*   found     the rows its query returned (dbMsgContents)                 *)
(*   msgFiles  the msg files the sync read from the vault                  *)
(*   left      the rows a delete loop has still to visit                   *)
(*   content   what its getMsgContent call settles with                    *)
(*   st        "ok", or the rejection the call or its pending write ended  *)
(*             with                                                        *)
(* A database request takes effect when it is made; the call that awaits   *)
(* it goes on in a later step.                                             *)

MaxHandlers == 4       \* calls of the sync and of the listeners

HandlerFiles == {MsgFile, EmlFile}

Task(kind, file, pc, found, msgFiles, left, content, st) ==
    [kind |-> kind, file |-> file, pc |-> pc, found |-> found, msgFiles |-> msgFiles,
     left |-> left, content |-> content, st |-> st]
Settled(task, st) == [task EXCEPT !.pc = "done", !.st = st]
Step(task, t) == [task |-> task, t |-> t]

\* the row a for...of loop over rows takes next: rows come in id order
NextRow(rows) == CHOOSE row \in rows : \A other \in rows : row.id <= other.id

\* handleFileCreate up to its first await
handleFileCreateCall(file, t) ==
    IF file.extension \in acceptedExtensions
    THEN Task("create", file, "query", getDBMessageContentsByPath(t.rows, file.path),
              {}, {}, "none", "ok")
    ELSE Task("create", file, "done", {}, {}, {}, "none", "ok")

\* handleFileCreate from an await on: after the query the file is read
\* (a file that has left the vault cannot be read), after the read the
\* row is added and the add is not awaited
handleFileCreateStep(task, t, files) ==
    LET Read(content) == Step([task EXCEPT !.pc = "content", !.content = content], t)
        Added(u) == Step(Settled(task, u.st), [u EXCEPT !.st = "ok"])
    IN  IF task.pc = "query"
        THEN (IF task.found = {}
              THEN Read(IF task.file \in files
                        THEN getMsgContent([plugin |-> "this", msgFile |-> task.file])
                        ELSE "rejected")
              ELSE Step(Settled(task, "ok"), t))
        ELSE IF task.content \in {"TypeError", "rejected"}
        THEN Step(Settled(task, task.content), t)
        ELSE Added(createDBMessageContent(t, task.content, task.file))

\* handleFileDelete up to its first await
handleFileDeleteCall(file, t) ==
    IF file.extension \in acceptedExtensions
    THEN Task("delete", file, "query", getDBMessageContentsByPath(t.rows, file.path),
              {}, getDBMessageContentsByPath(t.rows, file.path), "none", "ok")
    ELSE Task("delete", file, "done", {}, {}, {}, "none", "ok")

\* handleFileDelete from an await on: one pass of its loop
handleFileDeleteStep(task, t) ==
    LET Deleted(row) ==
            Step([task EXCEPT !.pc = "delete", !.left = task.left \ {row}],
                 [t EXCEPT !.rows = deleteDBMessageContentById(t.rows, row.id)])
    IN  IF task.left = {} THEN Step(Settled(task, "ok"), t)
        ELSE Deleted(NextRow(task.left))

\* syncDatabaseWithVaultFiles up to its first await
syncDatabaseWithVaultFilesCall(files, t) ==
    LET msgFiles == {f \in files : f.extension = "msg"}
        dbMsgContents == getAllDBMessageContents(t.rows)
    IN  Task("sync", MsgFile, "rows", dbMsgContents, msgFiles,
             {c \in dbMsgContents : ~\E f \in msgFiles : f.path = c.filePath},
             "none", "ok")

\* syncDatabaseWithVaultFiles from an await on: one pass of the first loop,
\* and once that loop is through, the second loop
syncDatabaseWithVaultFilesStep(task, t) ==
    LET Deleted(row) ==
            Step([task EXCEPT !.pc = "delete", !.left = task.left \ {row}],
                 [t EXCEPT !.rows = deleteDBMessageContentById(t.rows, row.id)])
        Created(u) == Step(Settled(task, u.st), [u EXCEPT !.st = "ok"])
    IN  IF task.left # {} THEN Deleted(NextRow(task.left))
        ELSE Created(syncCreateLoop(t,
                        {f \in task.msgFiles :
                           ~\E c \in task.found : c.filePath = f.path}))

Resume(task, t, files) ==
    IF task.kind = "create" THEN handleFileCreateStep(task, t, files)
    ELSE IF task.kind = "delete" THEN handleFileDeleteStep(task, t)
    ELSE syncDatabaseWithVaultFilesStep(task, t)

InitHandlers ==
    /\ vault \in SUBSET HandlerFiles
    /\ \E t \in StoredTables :
         /\ db = t.rows
         /\ plugin = NotLoaded(FALSE, t.nextId)
    /\ search = NoSearch
    /\ handlers = NoHandlers
    /\ buffer = ByteBuffer(<<>>)
    /\ stream = NewDataStream(buffer.len)
    /\ call = NoCall
    /\ ds = [r \in Readers |-> NewDataStream(buffer.len)]
    /\ fileData = [r \in Readers |-> NoFileData]
    /\ result = [r \in Readers |-> NoResult]
    /\ parseRuns = [r \in Readers |-> 0]
    /\ hung = FALSE
    /\ alone = [r \in Readers |->
                 [ds |-> NewDataStream(buffer.len), fileData |-> NoFileData,
                  result |-> NoResult]]

\* the layout is ready: the sync is called and the search leaf is opened
LayoutReady ==
    /\ ~plugin.loaded
    /\ Len(handlers) < MaxHandlers
    /\ handlers' = Append(handlers,
                          syncDatabaseWithVaultFilesCall(vault, Table(db, plugin.nextId)))
    /\ plugin' = [plugin EXCEPT !.loaded = TRUE,
                                !.leaves = openMsgHandlerSearchLeaf(plugin.leaves)]
    /\ UNCHANGED <<vault, db, search, buffer, readerVars, streamVars>>

\* a file appears in the vault and the create listener is called
FileCreated(file) ==
    /\ file \notin vault
    /\ Len(handlers) < MaxHandlers
    /\ vault' = vault \cup {file}
    /\ handlers' = Append(handlers, handleFileCreateCall(file, Table(db, plugin.nextId)))
    /\ UNCHANGED <<db, plugin, search, buffer, readerVars, streamVars>>

\* a file leaves the vault and the delete listener is called
FileDeleted(file) ==
    /\ file \in vault
    /\ Len(handlers) < MaxHandlers
    /\ vault' = vault \ {file}
    /\ handlers' = Append(handlers, handleFileDeleteCall(file, Table(db, plugin.nextId)))
    /\ UNCHANGED <<db, plugin, search, buffer, readerVars, streamVars>>

\* the promise the i-th call awaits settles and the call goes on to its
\* next await or to its end
HandlerResumes(i) ==
    /\ i \in 1..Len(handlers)
    /\ handlers[i].pc # "done"
    /\ \E o \in {Resume(handlers[i], Table(db, plugin.nextId), vault)} :
         /\ handlers' = [handlers EXCEPT ![i] = o.task]
         /\ db' = o.t.rows
         /\ plugin' = [plugin EXCEPT !.nextId = o.t.nextId]
    /\ UNCHANGED <<vault, search, buffer, readerVars, streamVars>>

NextHandlers ==
    \/ LayoutReady
    \/ \E file \in HandlerFiles : FileCreated(file)
    \/ \E file \in HandlerFiles : FileDeleted(file)
    \/ \E i \in 1..MaxHandlers : HandlerResumes(i)

SpecHandlers == InitHandlers /\ [][NextHandlers]_vars

---------------------------------------------------------------------------
(* Properties *)

\* what the properties read off the state
IsParse(r) == result[r].op = "getFileData"
IsAttach(r) == result[r].op = "getAttachment"
GaveFields(r) == IsParse(r) /\ result[r].kind = "fields"
Family == buffer.id[1]

\* the first eight bytes of the buffer, -1 where the buffer has ended
FirstEight == [i \in 1..8 |-> IF i <= buffer.len THEN FileByte(buffer, i - 1) ELSE -1]
SignatureDiffers == FirstEight # GoodSignature

\* C1: on a buffer whose first 8 bytes are not the compound-file signature
\* every getFileData ends in the format error, with the cursor no further
\* than the 8 signature bytes, no field set returned and no parse memoized.
C1_BadSignatureIsFormatError ==
    \A r \in Readers :
        (SignatureDiffers /\ IsParse(r)) =>
            /\ result[r].kind = "error"
            /\ ds[r].pos <= Len(FILE_HEADER)
            /\ ~fileData[r].set
            /\ parseRuns[r] = 0

\* C1, the failing case: a buffer shorter than the signature makes
\* getFileData throw a RangeError out of the signature read
C1_ShortBufferThrows ==
    /\ SignatureDiffers
    /\ buffer.len < Len(FILE_HEADER)
    /\ IsParse(1)
    /\ result[1].kind = "throw"
    /\ result[1].value = "RangeError"

\* C1, the case that goes as claimed: eight or more bytes, a wrong
\* signature, the error record returned with the cursor at 8
C1_LongBufferRejected ==
    /\ SignatureDiffers
    /\ buffer.len > Len(FILE_HEADER)
    /\ IsParse(1)
    /\ result[1].kind = "error"
    /\ ds[1].pos = Len(FILE_HEADER)
    /\ ~fileData[1].set

\* the field a class code maps to and the value a type code decodes text to
MappedName(class) ==
    CASE class = ClassSubject -> "subject"
      [] class = ClassBody -> "body"
      [] class = ClassBodyHTML -> "bodyHTML"
DecodedAs(type, text) == IF type = TypeBinary THEN BytesValue(text) ELSE StringValue(text)
DecodedTypes == {TypeString, TypeUnicode, TypeBinary}
\* the UTF-8 decoding of the HTML bodies, as UTF-16 code units
HtmlText(k) == IF k = 1 THEN <<72, 233>> ELSE <<72, 65533>>

PrefixedDirectories(prefix) ==
    {<<b, i>> \in (1..Len(buffer.blocks)) \X (1..4) :
        /\ buffer.blocks[b].k = "props"
        /\ i <= Len(buffer.blocks[b].slots)
        /\ buffer.blocks[b].slots[i].type = TYPE_DIRECTORY
        /\ StartsWith(buffer.blocks[b].slots[i].name, prefix)}

\* C3: on every buffer with the signature, getFileData returns a field set
\* whose attachments and recipients lists are as long as the file has
\* attachment-prefixed and recipient-prefixed Directory properties, wherever
\* they are nested.
C3_ListsCountPrefixedDirectories ==
    \A r \in Readers :
        (~SignatureDiffers /\ IsParse(r)) =>
            /\ result[r].kind = "fields"
            /\ Len(result[r].value["attachments"])
                 = Cardinality(PrefixedDirectories(PREFIX_ATTACHMENT))
            /\ Len(result[r].value["recipients"])
                 = Cardinality(PrefixedDirectories(PREFIX_RECIPIENT))

\* C3, the failing case: an attachment directory inside an attachment
\* directory makes getFileData throw a TypeError
C3_NestedAttachmentThrows ==
    /\ Family = "nest"
    /\ buffer.id[2] = "attach"
    /\ buffer.id[3] = "attach"
    /\ Cardinality(PrefixedDirectories(PREFIX_ATTACHMENT)) = 2
    /\ IsParse(1)
    /\ result[1].kind = "throw"
    /\ result[1].value = "TypeError"

\* C3, where the count is right: directories under the root or under a
\* directory that is neither attachment, recipient nor embedded message
C3_CountedWhereWalked ==
    \A r \in Readers :
        (IsParse(r) /\ Family = "nest" /\ buffer.id[2] \in {"root", "plain"}) =>
            /\ result[r].kind = "fields"
            /\ Len(result[r].value["attachments"])
                 = Cardinality(PrefixedDirectories(PREFIX_ATTACHMENT))
            /\ Len(result[r].value["recipients"])
                 = Cardinality(PrefixedDirectories(PREFIX_RECIPIENT))

\* the attachment files whose payload Documents are binary, the number of
\* their attachments, and per attachment (counted from 0) the flat index
\* of the payload Document and the bytes of its stream
BinaryAttachKinds == {"small10", "small70", "two", "big", "bigfrag"}
AttachCount(kind) == IF kind = "two" THEN 2 ELSE 1
PayloadIndex(kind, n) == IF n = 0 THEN 2 ELSE 5
\* a big stream is its blocks in the order of the BAT chain
BigStream(kind) ==
    [i \in 1..BigSize |->
        IF (i - 1) % S_BIG_BLOCK_SIZE = 0
        THEN BigChain(kind)[((i - 1) \div S_BIG_BLOCK_SIZE) + 1] ELSE 0]
AttachStream(kind, n) ==
    CASE kind = "small10" -> Ten
      [] kind = "small70" -> Seventy
      [] kind = "two" -> IF n = 0 THEN Ten ELSE Hello
      [] kind \in {"big", "bigfrag"} -> BigStream(kind)

\* C4: an attachment directory with a Document of class 3701 gets dataId =
\* the flat index of that Document and contentLength = its size, no payload
\* bytes are stored in the field set, and a later getAttachment, by index
\* or by record, returns exactly the bytes of that Document's stream.
C4_AttachmentContentIsTheStream ==
    \A r \in Readers :
        (Family = "attach" /\ buffer.id[2] \in BinaryAttachKinds) =>
            /\ IsParse(r) =>
                  /\ result[r].kind = "fields"
                  /\ Len(result[r].value["attachments"]) = AttachCount(buffer.id[2])
                  /\ \A n \in 0..(AttachCount(buffer.id[2]) - 1) :
                        LET a == result[r].value["attachments"][n + 1]
                        IN  /\ DOMAIN a = {"fileName", "dataId", "contentLength"}
                            /\ a["dataId"] = NumberValue(PayloadIndex(buffer.id[2], n))
                            /\ a["contentLength"]
                                 = NumberValue(Len(AttachStream(buffer.id[2], n)))
            /\ (IsAttach(r) /\ fileData[r].set
                   /\ result[r].arg[2] < AttachCount(buffer.id[2])) =>
                  /\ result[r].kind = "attachment"
                  /\ result[r].value.content
                       = BytesValue(AttachStream(buffer.id[2], result[r].arg[2]))

\* C4, the failing case: the payload's chain is 5..11 then 13, and the
\* content returned ends with block 12, which belongs to another stream
C4_FragmentedPayloadMisread ==
    /\ Family = "attach"
    /\ buffer.id[2] = "bigfrag"
    /\ IsAttach(1)
    /\ result[1].kind = "attachment"
    /\ Len(result[1].value.content.v) = BigSize
    /\ result[1].value.content.v[7 * S_BIG_BLOCK_SIZE + 1] = 12
    /\ BigStream("bigfrag")[7 * S_BIG_BLOCK_SIZE + 1] = 13

\* C4, where it goes as claimed: payloads in the small-block store and a
\* big payload whose blocks follow one another in the file
C4_ContiguousPayloadRead ==
    \A r \in Readers :
        (Family = "attach" /\ buffer.id[2] \in BinaryAttachKinds \ {"bigfrag"}
           /\ IsAttach(r) /\ fileData[r].set
           /\ result[r].arg[2] < AttachCount(buffer.id[2])) =>
            /\ result[r].kind = "attachment"
            /\ result[r].value.content
                 = BytesValue(AttachStream(buffer.id[2], result[r].arg[2]))

\* the files that differ in the BAT chain of the property blocks only:
\* two blocks ending in END_OF_CHAIN, a block that follows itself, two
\* blocks that follow each other, a chain into a free entry, a chain into
\* a block past the BAT
PropertyChainKinds == {"twoblocks", "selfcycle", "cycle2", "unused", "pastbat"}

\* C5: whatever the BAT holds, the walk of the property block chain in
\* propertyData comes to an end: no getFileData runs forever.
C5_PropertyChainWalkHalts ==
    \A r \in Readers :
        (Family = "chain" /\ buffer.id[2] \in PropertyChainKinds /\ IsParse(r)) =>
            result[r].kind # "hang"

\* C5, the failing case: the BAT entry of the first property block names
\* that block, and getFileData never returns
C5_SelfCycleNeverReturns ==
    /\ Family = "chain"
    /\ buffer.id[2] = "selfcycle"
    /\ IsParse(1)
    /\ result[1].kind = "hang"
    /\ hung

\* C5, where the walk ends: a chain of two blocks closed by END_OF_CHAIN
C5_ClosedChainHalts ==
    \A r \in Readers :
        (Family = "chain" /\ buffer.id[2] = "twoblocks" /\ IsParse(r)) =>
            /\ result[r].kind = "fields"
            /\ result[r].value["subject"] = StringValue(Hello)

\* the files with the anomalies the builder is to step over: an unrecognized
\* type tag in slot 0, in the root's child, in a sibling, in a slot nothing
\* points to; a root without child; a sibling pointer past the list; a free
\* entry met in the property chain and in a small-block chain
AnomalyKinds == {"slot0hole", "holechild", "holesibling", "holeunlinked", "nochild",
                 "outofrange", "unused", "sbatunused"}

\* C6: on a signed file with a structural anomaly getFileData still returns
\* a field set.
C6_AnomaliesNeverAbort ==
    \A r \in Readers :
        (Family = "chain" /\ buffer.id[2] \in AnomalyKinds /\ IsParse(r)) =>
            result[r].kind = "fields"

\* C6, the failing case: slot 0 carries an unrecognized type tag and
\* getFileData throws a TypeError
C6_HoleInSlotZeroThrows ==
    /\ Family = "chain"
    /\ buffer.id[2] = "slot0hole"
    /\ IsParse(1)
    /\ result[1].kind = "throw"
    /\ result[1].value = "TypeError"

\* C6, where the anomaly is stepped over: holes away from slot 0, a root
\* without child, a pointer past the list
C6_HolesElsewhereSkipped ==
    \A r \in Readers :
        (Family = "chain" /\ IsParse(r)
           /\ buffer.id[2] \in {"holechild", "holesibling", "holeunlinked", "nochild",
                                 "outofrange"}) =>
            /\ result[r].kind = "fields"
            /\ (buffer.id[2] \in {"holesibling", "holeunlinked", "outofrange"}) =>
                  result[r].value["subject"] = StringValue(Hello)

\* the field sets of a returned message: the top-level one and those of its
\* attachments and recipients
FieldSets(msg) ==
    {msg} \cup {msg["attachments"][i] : i \in 1..Len(msg["attachments"])}
          \cup {msg["recipients"][i] : i \in 1..Len(msg["recipients"])}
NoBinaryBody(fields) == HasKey(fields, "body") => fields["body"].t # "bytes"
StringTypes == {TypeString, TypeUnicode}

\* C7: no field set of a returned message has a binary body; of two body
\* Documents with types among 001E, 001F, 0102 the one of type 0102 is
\* never stored, a string one is stored and is still there when the binary
\* one is visited after it, and without a string one there is no body key.
C7_BodyNeverBinary ==
    \A r \in Readers :
        GaveFields(r) =>
            /\ \A fields \in FieldSets(result[r].value) : NoBinaryBody(fields)
            /\ (Family = "bodyorder" /\ buffer.id[2] \in DecodedTypes
                   /\ buffer.id[3] \in DecodedTypes) =>
                  IF buffer.id[3] \in StringTypes
                  THEN /\ HasKey(result[r].value, "body")
                       /\ result[r].value["body"] = StringValue(World)
                  ELSE IF buffer.id[2] \in StringTypes
                  THEN /\ HasKey(result[r].value, "body")
                       /\ result[r].value["body"] = StringValue(Hello)
                  ELSE ~HasKey(result[r].value, "body")
            /\ (Family = "onedoc" /\ buffer.id[2] = ClassBody
                   /\ buffer.id[3] \in DecodedTypes) =>
                  IF buffer.id[3] = TypeBinary
                  THEN ~HasKey(result[r].value, "body")
                  ELSE /\ HasKey(result[r].value, "body")
                       /\ result[r].value["body"] = StringValue(Hello)

\* C7, reached: a string body visited first, a binary body visited second,
\* and the string is what the message holds
C7_StringBodyKept ==
    /\ Family = "bodyorder"
    /\ buffer.id[2] = TypeString
    /\ buffer.id[3] = TypeBinary
    /\ GaveFields(1)
    /\ HasKey(result[1].value, "body")
    /\ result[1].value["body"] = StringValue(Hello)

\* the text a small-store file holds in its one Document, whatever the
\* layout of its small blocks
StoreText(type, size) ==
    IF type = TypeUnicode THEN SubSeq(SmallValue(size), 1, size \div 2)
    ELSE SmallValue(size)

\* C8: a value of less than 4096 bytes decodes to the same content whether
\* its small-block chain has one link (read in place in the root stream) or
\* several (small blocks concatenated in chain order, cut to the declared
\* size): every layout of the same value gives the value itself.
C8_SmallChainLayoutsAgree ==
    \A r \in Readers :
        (Family = "store" /\ IsParse(r)) =>
            /\ result[r].kind = "fields"
            /\ HasKey(result[r].value, "subject")
            /\ result[r].value["subject"]
                 = DecodedAs(buffer.id[2], StoreText(buffer.id[2], buffer.id[3]))

\* C8, reached: a 6-byte value whose chain has two links, the second lying
\* before the first in the root stream, decoded to the value
C8_TwoLinksDecoded ==
    /\ Family = "store"
    /\ buffer.id[2] = TypeString
    /\ buffer.id[3] = 6
    /\ buffer.id[4] = "back"
    /\ GaveFields(1)
    /\ result[1].value["subject"] = StringValue(Hello6)

\* two calls ended alike: both returned the same value, or both ended in
\* the same error
SameOutcome(a, b) == a.kind = b.kind /\ a.value = b.value

\* C9: two readers over the same buffer give the same outcome from
\* getFileData, whatever calls each has made before, and, once both have
\* parsed, the same outcome from getAttachment for the same attachment.
C9_ReadersAgree ==
    /\ (IsParse(1) /\ IsParse(2)) => SameOutcome(result[1], result[2])
    /\ (IsAttach(1) /\ IsAttach(2) /\ fileData[1].set /\ fileData[2].set
          /\ result[1].arg[2] = result[2].arg[2]) =>
            SameOutcome(result[1], result[2])

\* C9, reached: both readers have returned the content of attachment 1 of
\* the file with two attachments, one asked by index and one by record
C9_BothReadAttachment ==
    /\ Family = "attach"
    /\ buffer.id[2] = "two"
    /\ IsAttach(1)
    /\ IsAttach(2)
    /\ result[1].arg = <<"index", 1>>
    /\ result[2].arg = <<"record", 1>>
    /\ result[1].kind = "attachment"
    /\ result[1].value.content = BytesValue(Hello)
    /\ result[2].value = result[1].value

\* C10: over a buffer with the signature a reader runs parseMsgData at its
\* first getFileData and never again: nothing is parsed before the first
\* call, no reader enters parseMsgData twice, and a getFileData on a reader
\* that has parsed returns the memoized fieldsData.
C10_ParsedOnceAndMemoized ==
    \A r \in Readers :
        ~SignatureDiffers =>
            /\ parseRuns[r] <= 1
            /\ (result[r].op = "none") => (parseRuns[r] = 0 /\ ~fileData[r].set)
            /\ (IsParse(r) /\ fileData[r].set) =>
                  /\ result[r].kind = "fields"
                  /\ result[r].value = fileData[r].msg.fieldsData

\* C10, the failing case: the first getFileData threw (slot 0 is a hole),
\* nothing was memoized, and the second getFileData has parsed again
C10_ParsedTwice ==
    /\ Family = "chain"
    /\ buffer.id[2] = "slot0hole"
    /\ IsParse(1)
    /\ result[1].kind = "throw"
    /\ ~fileData[1].set
    /\ parseRuns[1] = 2

\* C10, where it goes as claimed: a reader whose parse returned has parsed
\* exactly once, and its getFileData calls return the memoized field set,
\* getAttachment calls in between or not
C10_MemoizedWhenParseReturned ==
    \A r \in Readers :
        fileData[r].set =>
            /\ parseRuns[r] = 1
            /\ IsParse(r) =>
                  /\ result[r].kind = "fields"
                  /\ result[r].value = fileData[r].msg.fieldsData

\* C10, the same as a step property: a memoized parse is never replaced
C10_MemoNeverReplaced ==
    [][\A r \in Readers : fileData[r].set => fileData'[r] = fileData[r]]_vars

---------------------------------------------------------------------------
(* C11: the directory of an embedded message *)

\* the field set fieldsData starts with
NoFields == [k \in {"attachments", "recipients"} |-> <<>>]
InnerMarked(fields) == SetKey(fields, "innerMsgContent", TrueValue)

\* the files whose first directory with the marker 000d is met while the
\* top-level field set is being filled, and those where it is met inside an
\* attachment or a recipient directory
InnerAtTop ==
    /\ Family = "nest"
    /\ \/ buffer.id[2] = "inner"
       \/ buffer.id[2] \in {"root", "plain"} /\ buffer.id[3] = "inner"
InnerInList ==
    /\ Family = "nest"
    /\ buffer.id[2] \in {"attach", "recip"}
    /\ buffer.id[3] = "inner"
ListOf(container) == IF container = "attach" THEN "attachments" ELSE "recipients"

\* C11: a directory that is neither attachment- nor recipient-prefixed and
\* whose name carries the type code 000d sets innerMsgContent = true on the
\* field set being filled and is not walked: getFileData returns, and the
\* field set has nothing else from the directory, neither a key of the
\* Document beneath it nor an attachment or a recipient for a directory
\* beneath it.
C11_InnerMsgNotDescended ==
    \A r \in Readers :
        /\ (IsParse(r) /\ InnerAtTop) =>
              /\ result[r].kind = "fields"
              /\ result[r].value = InnerMarked(NoFields)
        /\ (IsParse(r) /\ InnerInList) =>
              /\ result[r].kind = "fields"
              /\ result[r].value
                   = SetKey(NoFields, ListOf(buffer.id[2]),
                            <<InnerMarked(EmptyFields)>>)

\* C11, its case: the embedded-message directory holds an attachment
\* directory with a named Document, and the call returned the marked field
\* set
C11_InnerMsgWithAttachmentBeneath ==
    /\ Family = "nest"
    /\ buffer.id[2] = "inner"
    /\ buffer.id[3] = "attach"
    /\ Cardinality(PrefixedDirectories(PREFIX_ATTACHMENT)) = 1
    /\ GaveFields(1)
    /\ result[1].value["innerMsgContent"] = TrueValue
    /\ result[1].value["attachments"] = <<>>

---------------------------------------------------------------------------
(* C12: the caller's buffer *)

\* the reader's stream has left the caller's ArrayBuffer for a longer copy:
\* a read went past the end of what the caller supplied
ReadPastEnd(r) == ds[r].bufLen > buffer.len

\* C12: no getFileData and no getAttachment call changes the buffer the
\* caller supplied: after the call it has the length and, at every offset,
\* the byte it had before, also when the call read past its end.
C12_InputBufferNeverMutated ==
    [][/\ buffer'.len = buffer.len
       /\ buffer'.bytes = buffer.bytes
       /\ buffer' = buffer]_vars

\* C12, its case: a call has read past the end of the caller's buffer, the
\* stream works on a longer copy, and the caller's buffer is the file it was
C12_ReadPastEndOfBuffer ==
    /\ \E r \in Readers : ReadPastEnd(r) /\ result[r] # NoResult
    /\ \E f \in Files : f.id = buffer.id /\ buffer = ArrayBuffer(f)

---------------------------------------------------------------------------
(* C13: two readers *)

---------------------------------------------------------------------------
(* C20: the list of SBAT blocks *)

\* sbatData as parseMsgData calls it on the buffer: after headerData and
\* batData, on a stream at its start
SbatRun ==
    LET Sbat(m) == IF Ok(m) THEN sbatData(m, m.ret) ELSE m
        Bat(h) ==
            LET Set(b) == IF Ok(b) THEN Ret(b, [h.ret EXCEPT !.batData = b.ret]) ELSE b
            IN  IF Ok(h) THEN Set(batData(h, h.ret)) ELSE h
    IN  Sbat(Bat(headerData(Ctx(NewDataStream(buffer.len)))))

\* the entry the first BAT block (block 0) has for block k
BatEntry(k) == N(Int32At(S_BIG_BLOCK_SIZE + 4 * k))
InFirstBat(v) == IsNum(v) /\ Val(v) \in 0..((S_BIG_BLOCK_SIZE \div 4) - 1)

\* list follows the chain that starts at start: each entry is the BAT's
\* successor of the one before, none is the end-of-chain marker, and the
\* list is cut short of count entries only where the chain ended
FollowsChain(list, start, count) ==
    /\ Len(list) <= Max(0, count)
    /\ \A i \in 1..Len(list) : list[i] # N(END_OF_CHAIN)
    /\ Len(list) > 0 => list[1] = N(start)
    /\ \A i \in 1..(Len(list) - 1) :
          InFirstBat(list[i]) => list[i + 1] = BatEntry(Val(list[i]))
    /\ Len(list) < count =>
          IF Len(list) = 0 THEN start = END_OF_CHAIN
          ELSE InFirstBat(list[Len(list)])
                  => BatEntry(Val(list[Len(list)])) = N(END_OF_CHAIN)

\* C20: on every buffer sbatData comes to an end, whatever chain the BAT
\* holds for the SBAT, a chain that loops included; the list it returns
\* starts with the header's SBAT start block, follows the BAT from block to
\* block, stops before the first end-of-chain marker, and has at most
\* sbatCount entries (none when sbatCount is not positive); a finished
\* parse holds that list.
C20_SbatListBounded ==
    \A r \in Readers :
        (IsParse(r) /\ ~SignatureDiffers) =>
            /\ SbatRun.st # "hang"
            /\ Ok(SbatRun) =>
                  /\ FollowsChain(SbatRun.ret, buffer.sbatStart, buffer.sbatCount)
                  /\ fileData[r].set => fileData[r].msg.sbatData = SbatRun.ret

\* C20, its case: the SBAT chain loops through blocks 2 and 5, the header
\* counts three SBAT blocks, and the parse returned with the list 2, 5, 2
C20_LoopingChainCut ==
    /\ Family = "sbatchain"
    /\ buffer.id[2] = "loop"
    /\ buffer.sbatCount = 3
    /\ fileData[1].set
    /\ fileData[1].msg.sbatData = <<N(2), N(5), N(2)>>

---------------------------------------------------------------------------
(* C17: the position of the stream *)

\* C17: after every operation on the stream the position is between 0 and
\* byteLength.
C17_PositionWithinStream ==
    0 <= stream.pos /\ stream.pos <= stream.byteLength

\* C17, the failing case: readType of a cstring with a length override
\* longer than what is left puts the position past byteLength
C17_OverridePastEnd ==
    /\ call.op = "readType"
    /\ call.arg[1] = "cstring"
    /\ call.st = "ok"
    /\ call.from.pos = 0
    /\ stream.byteLength = buffer.len
    /\ stream.pos > stream.byteLength

\* C17, where the position stays inside: after a seek, and after a read
\* that started inside a stream that never grew
C17_PositionWithinAfterSeek ==
    call.op = "seek" => (0 <= stream.pos /\ stream.pos <= stream.byteLength)

---------------------------------------------------------------------------
(* C18: seek *)

Sought == call.op = "seek"

\* C18: seek(p) leaves the position at p clamped into [0, byteLength] for
\* a finite p, and at 0 for NaN, +Infinity and -Infinity.
C18_SeekClampsOrResets ==
    Sought =>
        stream.pos = IF ~IsNum(call.arg) \/ IsInf(call.arg) THEN 0
                     ELSE Max(0, Min(stream.byteLength, Val(call.arg)))

\* C18, the failing case: seek(+Infinity) on a stream that is not empty
\* leaves the position at byteLength
C18_PlusInfinitySeeksToEnd ==
    /\ Sought
    /\ call.arg = PosInfinity
    /\ stream.byteLength > 0
    /\ stream.pos = stream.byteLength

\* C18, what holds: the clamp of a finite p, and 0 for NaN and -Infinity
C18_FiniteClampedOthersReset ==
    (Sought /\ call.arg # PosInfinity) =>
        stream.pos = IF ~IsNum(call.arg) \/ IsInf(call.arg) THEN 0
                     ELSE Max(0, Min(stream.byteLength, Val(call.arg)))

---------------------------------------------------------------------------
(* C19: readCString *)

ScannedCString == call.op = "readCString" /\ call.st = "ok"
Start == call.from.pos
Remaining == call.from.byteLength - call.from.pos
\* the bound of the scan: maxLength when given, cut to what is left
ScanBound == IF IsNum(call.arg) THEN Min(Val(call.arg), Remaining) ELSE Remaining
ZerosBeforeBound == {k \in 0..(ScanBound - 1) : ByteAt(Start + k) = 0}
TerminatorFound == ZerosBeforeBound # {}
\* the number of bytes before the terminator, or before the bound
ScanLength ==
    IF TerminatorFound
    THEN CHOOSE k \in ZerosBeforeBound : \A j \in ZerosBeforeBound : k <= j
    ELSE Max(ScanBound, 0)
BytesScanned == [k \in 1..ScanLength |-> ByteAt(Start + k - 1)]

---------------------------------------------------------------------------
(* C14: the table after the sync at load *)

Loaded == plugin.last.kind = "load"
IndexedPaths == {row.filePath : row \in db}
AcceptedPaths == {f.path : f \in {g \in vault : g.extension \in acceptedExtensions}}

\* C14: when the sync that onload starts has finished, and no vault event
\* came in between, the filePath values of the rows are exactly the paths
\* of the .msg and .eml files of the vault.
C14_TableMatchesVaultAfterSync ==
    Loaded => IndexedPaths = AcceptedPaths

\* C14, the failing case: after the sync the vault has an .eml file and a
\* .msg file and the table has a row for neither
C14_NothingIndexedAfterSync ==
    /\ Loaded
    /\ MsgFile \in vault
    /\ EmlFile \in vault
    /\ plugin.last.st = "TypeError"
    /\ db = {}

\* C14, what holds: after the sync every row belongs to a .msg file of the
\* vault
C14_RowsAreOfMsgFiles ==
    Loaded => \A row \in db :
                 \E f \in vault : f.extension = "msg" /\ f.path = row.filePath

---------------------------------------------------------------------------
(* C15: the table under create and delete events *)

Mirrors ==
    /\ \A f \in Files4 :
          (\E row \in db : row.filePath = f.path)
             <=> (f \in vault /\ f.extension \in acceptedExtensions)
    /\ \A r1 \in db, r2 \in db : r1.filePath = r2.filePath => r1 = r2
OtherExtensionEvent ==
    /\ plugin'.last.kind \in {"create", "delete"}
    /\ plugin'.last # plugin.last \/ vault' # vault
    /\ \E f \in Files4 : /\ f.path = plugin'.last.path
                         /\ f.extension \notin acceptedExtensions

\* C15: after create and delete events handled one after another the table
\* has a row with filePath p exactly when the vault has a .msg or .eml file
\* at p, it has at most one row for a filePath, and an event for a file of
\* another extension leaves the table as it is.
C15_TableMirrorsVault ==
    /\ [](plugin.loaded => Mirrors)
    /\ [][OtherExtensionEvent => db' = db]_vars

\* C15, the failing case: create and delete events have been handled, the
\* last one a create that made a row, and an .eml file that was in the
\* vault at load still has no row
C15_EmlLeftWithoutRow ==
    /\ plugin.loaded
    /\ plugin.last = Event("create", MsgFile.path, "ok")
    /\ EmlFile \in vault
    /\ IndexedPaths = {MsgFile.path}

\* C15, what holds: at most one row for a filePath, every row of a file of
\* an accepted extension, and a table untouched by events for other
\* extensions
C15_RowsUniqueAndAccepted ==
    /\ [](/\ \A r1 \in db, r2 \in db : r1.filePath = r2.filePath => r1 = r2
          /\ \A row \in db : \E f \in Files4 : /\ f.path = row.filePath
                                               /\ f.extension \in acceptedExtensions)
    /\ [][OtherExtensionEvent => db' = db]_vars

---------------------------------------------------------------------------
(* C16: the search leaf at load *)

\* C16: loading the plugin attaches the search leaf only when
\* settings.searchEnabled is true; with the setting false the load leaves
\* the workspace without a search leaf.
C16_LeafAtLoadOnlyWhenEnabled ==
    Loaded => (plugin.leaves > 0 => plugin.searchEnabled)

\* C16, the failing case: loaded with the setting off, and the search leaf
\* is there
C16_LeafAttachedThoughDisabled ==
    /\ Loaded
    /\ ~plugin.searchEnabled
    /\ plugin.leaves = 1

\* C16, what holds: the toggle of the settings tab attaches and detaches
C16_ToggleFollowsSetting ==
    plugin.last.kind = "toggle" => (plugin.leaves > 0 <=> plugin.searchEnabled)

---------------------------------------------------------------------------
(* C21: the SBAT chain and the entries recovered from the XBAT chain *)

\* the parsed file has more BAT sectors than the header has entries for
BatBeyondHeader(r) ==
    /\ fileData[r].set
    /\ fileData[r].msg.batCount > batCountInHeader(fileData[r].msg)
\* the SBAT chain as sbatData walks it with the batData the parse ended with
SbatWithCompleteBat(r) == sbatData(Ctx(ds[r]), fileData[r].msg).ret

\* C21: when batCount exceeds the entries that fit in the header, the SBAT
\* chain is walked with the complete batData: an SBAT chain block whose BAT
\* slot lies beyond the in-header entries is resolved through the entry
\* recovered from the XBAT chain.
C21_SbatWalkedWithCompleteBat ==
    \A r \in Readers :
       BatBeyondHeader(r) => fileData[r].msg.sbatData = SbatWithCompleteBat(r)

\* C21, the failing case: the SBAT starts at a block governed by the BAT
\* sector that the XBAT chain supplies, that sector ends the chain there,
\* and the parsed sbatData goes on with a value read from the file header
C21_SbatResolvedThroughHeader ==
    \E r \in Readers :
       /\ BatBeyondHeader(r)
       /\ fileData[r].msg.sbatStart = FirstBlockPastHeaderBats
       /\ Len(fileData[r].msg.batData) = HeaderBats + 1
       /\ SbatWithCompleteBat(r) = <<N(FirstBlockPastHeaderBats)>>
       /\ Len(fileData[r].msg.sbatData) = 2
       /\ fileData[r].msg.sbatData[2] = N(Int32At(0))

\* C21, what holds: an SBAT chain whose blocks all have their BAT slot among
\* the in-header entries is walked the same with and without the recovered
\* entries
C21_InHeaderChainUnaffected ==
    \A r \in Readers :
       (BatBeyondHeader(r) /\ fileData[r].msg.sbatStart = 2)
          => fileData[r].msg.sbatData = SbatWithCompleteBat(r)

---------------------------------------------------------------------------
(* C22: the BAT from the header and from the XBAT chain *)

\* entry j (from 1) of the block at index at, as the file lays it out
EntryOf(at, j) ==
    IF j <= Len(buffer.blocks[at + 1].ints) THEN buffer.blocks[at + 1].ints[j]
    ELSE UNUSED_BLOCK
Sentinels == {UNUSED_BLOCK, END_OF_CHAIN}
\* the first n entries of that block, up to the first sentinel among them
BeforeSentinel(at, n) ==
    LET stops == {j \in 1..n : EntryOf(at, j) \in Sentinels}
        m == IF stops = {} THEN n
             ELSE (CHOOSE j \in stops : \A k \in stops : j <= k) - 1
    IN  [j \in 1..m |-> N(EntryOf(at, j))]
\* the entries that k XBAT blocks from the block at index at supply when
\* remaining entries are still to be recovered
RECURSIVE FromXbat(_, _, _)
FromXbat(k, at, remaining) ==
    IF k <= 0 THEN <<>>
    ELSE BeforeSentinel(at, Min(remaining, XBlockLength))
           \o FromXbat(k - 1, EntryOf(at, XBlockLength + 1),
                       remaining - Min(remaining, XBlockLength))
InHeader == Min(buffer.batCount, HeaderBats)
HasXbatChain(r) == fileData[r].set /\ buffer.xbatCount > 0

\* C22: batData starts with min(batCount, entries that fit in the header)
\* in-header entries; xbatData then goes through exactly xbatCount XBAT
\* blocks, each found through the last slot of the one before, and appends
\* from each block its entries in order up to the first unused or
\* end-of-chain entry; no sentinel is appended, nothing at or after an early
\* sentinel of a block is appended, and batData never has more than
\* batCount entries.
C22_BatFromHeaderThenXbat ==
    \A r \in Readers :
       fileData[r].set =>
          /\ Len(fileData[r].msg.batData) >= InHeader
          /\ \A i \in 1..InHeader : fileData[r].msg.batData[i] = N(buffer.hbat[i])
          /\ SubSeq(fileData[r].msg.batData, InHeader + 1,
                    Len(fileData[r].msg.batData))
               = FromXbat(buffer.xbatCount, buffer.xbatStart,
                          buffer.batCount - InHeader)
          /\ \A i \in (InHeader + 1)..Len(fileData[r].msg.batData) :
                Val(fileData[r].msg.batData[i]) \notin Sentinels
          /\ Len(fileData[r].msg.batData) <= buffer.batCount

\* C22, the case: two XBAT blocks were gone through, the first has a
\* sentinel with an entry after it, and both supplied entries
C22_TwoXbatBlocksOneCutShort ==
    \E r \in Readers :
       /\ HasXbatChain(r)
       /\ buffer.xbatCount = 2
       /\ \E j \in 1..(XBlockLength - 1) :
            /\ EntryOf(buffer.xbatStart, j) \in Sentinels
            /\ EntryOf(buffer.xbatStart, j + 1) \notin Sentinels
       /\ Len(fileData[r].msg.batData) = HeaderBats + 4

---------------------------------------------------------------------------
(* C23: the property array and the slots of the property blocks *)

SlotsPerBlock == S_BIG_BLOCK_SIZE \div PROPERTY_SIZE
\* the property blocks in the order the BAT of block 0 chains them, at most
\* n of them
RECURSIVE PropertyBlocks(_, _)
PropertyBlocks(at, n) ==
    IF at = END_OF_CHAIN \/ n = 0 THEN <<>>
    ELSE <<at>> \o PropertyBlocks(Int32At(S_BIG_BLOCK_SIZE + 4 * at), n - 1)
VisitedPropertyBlocks == PropertyBlocks(buffer.propertyStart, Len(buffer.blocks) + 1)
\* the type tag of the slot that entry i (from 1) of the array stands for
SlotTag(i) ==
    ByteAt((VisitedPropertyBlocks[((i - 1) \div SlotsPerBlock) + 1] + 1) * S_BIG_BLOCK_SIZE
           + ((i - 1) % SlotsPerBlock) * PROPERTY_SIZE + TYPE_OFFSET)

\* C23: when the property array is built every 128-byte slot of every
\* visited property block has contributed exactly one entry, in visiting
\* order; the entry is a record when the slot's type tag is Root, Directory
\* or Document and a hole otherwise; and the entry at position i is a hole
\* or a record whose index field is i.
C23_PropertyIndexAligned ==
    \A r \in Readers :
       fileData[r].set =>
          /\ Len(fileData[r].msg.propertyData)
               = SlotsPerBlock * Len(VisitedPropertyBlocks)
          /\ \A i \in 1..Len(fileData[r].msg.propertyData) :
                /\ IsHole(fileData[r].msg.propertyData[i])
                     <=> SlotTag(i) \notin {TYPE_ROOT, TYPE_DIRECTORY, TYPE_DOCUMENT}
                /\ ~IsHole(fileData[r].msg.propertyData[i])
                     => /\ fileData[r].msg.propertyData[i].index = i - 1
                        /\ fileData[r].msg.propertyData[i].type = SlotTag(i)

\* C23, the case: two property blocks were visited, and a record follows a
\* hole in the array
C23_RecordAfterHole ==
    \E r \in Readers :
       /\ fileData[r].set
       /\ \E i \in 1..(Len(fileData[r].msg.propertyData) - 1) :
            /\ IsHole(fileData[r].msg.propertyData[i])
            /\ ~IsHole(fileData[r].msg.propertyData[i + 1])
            /\ fileData[r].msg.propertyData[i + 1].index = i
       /\ Len(VisitedPropertyBlocks) = 2

---------------------------------------------------------------------------
(* C24: the children lists of the property hierarchy *)

\* the non-hole indices reachable from the indices in from through
\* previousProperty and nextProperty
RECURSIVE SiblingClosure(_, _)
SiblingClosure(props, from) ==
    LET known == {i \in from : HasProp(props, i)}
        more == known \cup
                {Prop(props, i).previousProperty : i \in known} \cup
                {Prop(props, i).nextProperty : i \in known}
        grown == {i \in more : HasProp(props, i)}
    IN  IF grown = known THEN known ELSE SiblingClosure(props, grown)
NoRepeat(list) == \A i \in 1..Len(list), j \in 1..Len(list) : list[i] = list[j] => i = j
ChildrenExact(props) ==
    \A i \in 1..Len(props) :
       (~IsHole(props[i]) /\ props[i].hasChildren) =>
          /\ NoRepeat(props[i].children)
          /\ {props[i].children[k] : k \in 1..Len(props[i].children)}
               = SiblingClosure(props, {props[i].childProperty})
\* the property array of the buffer before the hierarchy is built
PropertiesRead ==
    LET Walked(m) ==
            IF Ok(m) THEN propertyWalk(m, m.ret, N(m.ret.propertyStart), <<>>, {}) ELSE m
        Bat(h) ==
            LET Set(b) == IF Ok(b) THEN Ret(b, [h.ret EXCEPT !.batData = b.ret]) ELSE b
            IN  IF Ok(h) THEN Set(batData(h, h.ret)) ELSE h
    IN  Walked(Bat(headerData(Ctx(NewDataStream(buffer.len)))))
\* the array has a sibling pointer cycle below the root
SiblingCycle(props) ==
    /\ HasProp(props, 0)
    /\ \E i \in SiblingClosure(props, {Prop(props, 0).childProperty}) :
          i \in SiblingClosure(props, {Prop(props, i).previousProperty,
                                       Prop(props, i).nextProperty})

\* C24: for the root and every Directory reachable from it the children
\* list holds each non-hole index reachable from childProperty through
\* previousProperty/nextProperty exactly once and nothing else, for every
\* property array, also one whose sibling pointers are shared between nodes
\* or form a cycle.
C24_ChildrenExactlyOnce ==
    \A r \in Readers :
       /\ fileData[r].set => ChildrenExact(fileData[r].msg.propertyData)
       /\ (result[r].kind = "hang" /\ Ok(PropertiesRead))
             => ~SiblingCycle(PropertiesRead.ret)

\* C24, the failing case: both sibling pointers of a node name the same
\* slot and the root's children list has that slot twice
C24_SharedSiblingListedTwice ==
    \E r \in Readers :
       /\ fileData[r].set
       /\ HasProp(fileData[r].msg.propertyData, 1)
       /\ Prop(fileData[r].msg.propertyData, 1).previousProperty = 2
       /\ Prop(fileData[r].msg.propertyData, 1).nextProperty = 2
       /\ Prop(fileData[r].msg.propertyData, 0).children = <<1, 2, 2>>

\* C24, what holds: a parsed array in which no index is listed twice has
\* in each children list exactly the reachable non-hole indices
C24_ChildrenAreTheReachable ==
    \A r \in Readers :
       fileData[r].set =>
          \A i \in 1..Len(fileData[r].msg.propertyData) :
             (~IsHole(fileData[r].msg.propertyData[i])
                /\ fileData[r].msg.propertyData[i].hasChildren) =>
                {fileData[r].msg.propertyData[i].children[k] :
                    k \in 1..Len(fileData[r].msg.propertyData[i].children)}
                  = SiblingClosure(fileData[r].msg.propertyData,
                                   {fileData[r].msg.propertyData[i].childProperty})

---------------------------------------------------------------------------
(* C25: the walk along a small-block chain *)

\* the property array and its hierarchy can be built from the buffer, so
\* that a call that does not return is in a walk of small blocks
PropertiesBuilt ==
    /\ Ok(PropertiesRead)
    /\ HasProp(PropertiesRead.ret, 0)
    /\ createPropertyHierarchy(PropertiesRead.ret, 0, {}).st = "ok"
\* the SBAT entry of small block k
SbatEntry(k) == Int32At(3 * S_BIG_BLOCK_SIZE + 4 * k)

\* C25: the walk getChainByBlockSmall makes for a field below the 4096-byte
\* threshold ends for every SBAT content, also for a chain with a cycle and
\* for one that runs into an unused entry, during the parse and during
\* getAttachment.
C25_SmallChainWalkHalts ==
    \A r \in Readers : ~(result[r].kind = "hang" /\ PropertiesBuilt)

\* C25, the failing case: the parse returned, the attachment's payload
\* starts at small block 0 whose chain comes back to block 0, and
\* getAttachment does not return
C25_GetAttachmentWalksCycle ==
    \E r \in Readers :
       /\ fileData[r].set
       /\ result[r].op = "getAttachment"
       /\ result[r].kind = "hang"
       /\ SbatEntry(0) = 2
       /\ SbatEntry(2) = 0

---------------------------------------------------------------------------
(* C30: values in the big-block store *)

BigKinds == {"big", "bigfrag"}

\* C30: a field or an attachment payload whose declared size is at or
\* above the 4096-byte threshold decodes to the bytes of the big blocks of
\* its BAT chain, in chain order and cut to the declared size, also when
\* the blocks of the chain do not follow one another in the file.
C30_BigValueIsItsChain ==
    \A r \in Readers :
       /\ (Family = "bigfield" /\ IsParse(r)) =>
             /\ result[r].kind = "fields"
             /\ "subject" \in DOMAIN result[r].value
             /\ result[r].value["subject"] = StringValue(BigStream(buffer.id[2]))
       /\ (Family = "attach" /\ buffer.id[2] \in BigKinds /\ IsAttach(r)
             /\ fileData[r].set /\ result[r].arg[2] = 0) =>
             /\ result[r].kind = "attachment"
             /\ result[r].value.content = BytesValue(BigStream(buffer.id[2]))

\* C30, the failing case: the subject's chain is 5..11 then 13, and the
\* value the parse returned goes on with block 12 after block 11
C30_FragmentedFieldMisread ==
    \E r \in Readers :
       /\ Family = "bigfield"
       /\ buffer.id[2] = "bigfrag"
       /\ IsParse(r)
       /\ result[r].kind = "fields"
       /\ Len(result[r].value["subject"].v) = BigSize
       /\ result[r].value["subject"].v[6 * S_BIG_BLOCK_SIZE + 1] = 11
       /\ result[r].value["subject"].v[7 * S_BIG_BLOCK_SIZE + 1] = 12
       /\ BigChain("bigfrag")[8] = 13

\* C30, what holds: a big value whose blocks follow one another in the
\* file is read whole, as a field and as an attachment payload
C30_ConsecutiveChainRead ==
    \A r \in Readers :
       /\ (Family = "bigfield" /\ buffer.id[2] = "big" /\ IsParse(r)) =>
             /\ result[r].kind = "fields"
             /\ result[r].value["subject"] = StringValue(BigStream("big"))
       /\ (Family = "attach" /\ buffer.id[2] = "big" /\ IsAttach(r)
             /\ fileData[r].set /\ result[r].arg[2] = 0) =>
             /\ result[r].kind = "attachment"
             /\ result[r].value.content = BytesValue(BigStream("big"))

---------------------------------------------------------------------------
(* C26: the queue of searches *)

\* C26: for any sequence of changes of the search key, also one that comes
\* while an earlier search awaits the database, the queued searches run
\* strictly one at a time in the order they were queued, each queued search
\* is started exactly once, and no queued search is removed from the queue
\* before it has run.
C26_SearchesOneAtATimeInOrder ==
    /\ Len(search.inFlight) <= 1
    /\ \A i \in 1..Len(search.started), j \in 1..Len(search.started) :
          i < j => search.started[i] < search.started[j]
    /\ \A i \in 1..Len(search.shifted) : search.shifted[i].ran

\* C26, the failing case: a second key was entered while the first search
\* awaited the database, and the first search has been started again and
\* is in flight twice
C26_FirstSearchStartedTwice ==
    /\ Len(search.pushed) = 2
    /\ search.promiseQueue = <<1, 2>>
    /\ search.started = <<1, 1>>
    /\ search.inFlight = <<1, 1>>

\* C26, what holds: the search at the head of the queue has been started,
\* and no search leaves the queue that was never started
C26_HeadHasBeenStarted ==
    /\ Len(search.promiseQueue) > 0
          => \E i \in 1..Len(search.started) : search.started[i] = Head(search.promiseQueue)
    /\ \A k \in 1..Len(search.shifted) :
          \E i \in 1..Len(search.started) : search.started[i] = search.shifted[k].fn

---------------------------------------------------------------------------
(* C27: the results shown and the search key *)

\* C27: once every pending search has settled the results shown belong to
\* the current search key: null when the key is empty, otherwise the
\* results computed for the key entered last, in whatever order the
\* earlier searches in flight finish.
C27_ResultsOfCurrentKey ==
    Len(search.inFlight) = 0 =>
       IF search.searchKey = EmptyKey THEN ~search.searchResults.set
       ELSE search.searchResults = Results(searchMsgFilesWithKey(search.searchKey))

\* C27, the failing case: the key was emptied while a search awaited the
\* database; the search has settled, nothing is pending, and its results
\* are shown with the empty key
C27_ResultsShownForEmptyKey ==
    /\ Len(search.inFlight) = 0
    /\ Len(search.pushed) = 1
    /\ search.searchKey = EmptyKey
    /\ search.searchResults = Results(searchMsgFilesWithKey(KeyA))

\* C27, what holds: a key entered while nothing is pending and left alone
\* until its search settles is the key of the results shown
C27_LoneSearchShowsItsKey ==
    (Len(search.inFlight) = 0 /\ search.searchKey # EmptyKey
       /\ Len(search.started) = Len(search.pushed))
       => search.searchResults = Results(searchMsgFilesWithKey(search.searchKey))

---------------------------------------------------------------------------
(* C28: create and delete listeners that overlap for one path *)

Quiescent == \A i \in 1..Len(handlers) : handlers[i].pc = "done"
ListenerFor(i, kind, file) ==
    /\ i \in 1..Len(handlers)
    /\ handlers[i].kind = kind
    /\ handlers[i].file = file
HadEvent(file) ==
    \E i \in 1..Len(handlers) : handlers[i].kind \in {"create", "delete"}
                                /\ handlers[i].file = file
RowsOf(file) == getDBMessageContentsByPath(db, file.path)

\* C28: however the create and delete listeners for one path interleave,
\* once every call and every pending write has finished the table has a
\* row for the path only if the file is in the vault, and no listener has
\* ended in a database error
C28_RowOnlyForExistingFile ==
    Quiescent =>
        /\ \A file \in HandlerFiles :
             HadEvent(file) /\ RowsOf(file) # {} => file \in vault
        /\ \A i \in 1..Len(handlers) :
             handlers[i].kind \in {"create", "delete"}
                => handlers[i].st # "ConstraintError"

\* C28, the failing case: the file was created and deleted, the delete
\* listener has found no row to delete because the create listener was
\* still reading the file, and the row the create listener added
\* afterwards stays in the table of a vault without the file
C28_RowAddedAfterDelete ==
    /\ Quiescent
    /\ \E i, j \in 1..Len(handlers) :
         /\ i < j
         /\ ListenerFor(i, "create", MsgFile) /\ handlers[i].st = "ok"
         /\ handlers[i].found = {}
         /\ ListenerFor(j, "delete", MsgFile) /\ handlers[j].found = {}
    /\ MsgFile \notin vault
    /\ RowsOf(MsgFile) # {}

\* C28, the other failing case: two create listeners for one path have both
\* found no row, and the add of the second is refused by the unique index
C28_SecondAddRefused ==
    \E i, j \in 1..Len(handlers) :
        /\ i < j
        /\ ListenerFor(i, "create", MsgFile) /\ handlers[i].pc = "done"
        /\ ListenerFor(j, "create", MsgFile) /\ handlers[j].pc = "done"
        /\ {handlers[i].st, handlers[j].st} = {"ok", "ConstraintError"}

---------------------------------------------------------------------------
(* C29: the start-up sync among the listeners *)

SyncIs(i) == i \in 1..Len(handlers) /\ handlers[i].kind = "sync"
MsgFilesOf(files) == {f \in files : f.extension = "msg"}

\* C29: however the sync interleaves with the create and delete listeners,
\* the sync runs to its end without a rejection, and once it and the
\* listeners have finished every msg file of the vault has exactly one row
C29_SyncCompletesAmongListeners ==
    \A i \in 1..Len(handlers) :
        SyncIs(i) /\ Quiescent =>
            /\ handlers[i].st = "ok"
            /\ \A f \in MsgFilesOf(vault) : Cardinality(RowsOf(f)) = 1

\* C29, the failing case: the sync has read the vault without the msg file
\* and a row left for its path, the file is created and its listener finds
\* that row, then the sync deletes the row; the sync ends without a
\* rejection and the file is in the vault without a row
C29_SyncDeletesRowOfNewFile ==
    /\ Quiescent
    /\ \E i, j \in 1..Len(handlers) :
         /\ SyncIs(i) /\ handlers[i].st = "ok"
         /\ MsgFile \notin handlers[i].msgFiles
         /\ ListenerFor(j, "create", MsgFile) /\ handlers[j].found # {}
    /\ MsgFile \in vault
    /\ RowsOf(MsgFile) = {}

\* C29: no sync ends in a unique-index violation, for its second loop is
\* ended by the TypeError of getMsgContent before it adds a row
C29_SyncNeverReachesAdd ==
    \A i \in 1..Len(handlers) :
        SyncIs(i) => handlers[i].st \in {"ok", "TypeError"}

====
